---------------------------- MODULE Spec2Model ----------------------------
(***************************************************************************)
(* Model of the backteststoxx e-mail pipeline: Ingestion, Enrichment,      *)
(* Signal Extraction and Signal Promotion, each a worker pool over a       *)
(* buffered job channel and a buffered result channel, writing to the      *)
(* SQLite tables email_landing, emails, parse_buy_stop_target and          *)
(* trade_signals.                                                          *)
(*                                                                         *)
(* The repository holds two builds of the pipeline: the single-file build  *)
(* (main.go) and the split build (database.go, parser.go and the download/ *)
(* enrich file).  The variable build says which one a behaviour runs.      *)
(*                                                                         *)
(* Text is modelled as a sequence of tokens (words, numbers, punctuation,  *)
(* markup tags); dates are epoch seconds, signal dates epoch milliseconds; *)
(* prices are in cents.                                                    *)
(***************************************************************************)
EXTENDS Integers, Sequences, FiniteSets, TLC

(***************************************************************************)
(* Bounds of the model.                                                    *)
(***************************************************************************)
NumWorkers == 2
MaxPhrases == 2
PageSize == 2
MaxRuns == 2
MaxTicks == 1
MaxFaults == 1

Workers == 1..NumWorkers

(***************************************************************************)
(* Generic helpers.                                                        *)
(***************************************************************************)
Range(s) == {s[i] : i \in DOMAIN s}

\* the index of the first element of s at or after position from that is in S, 0 if none
FirstIn(s, S, from) ==
    IF \E i \in from..Len(s) : s[i] \in S
    THEN CHOOSE i \in from..Len(s) : s[i] \in S /\ \A j \in from..(i-1) : s[j] \notin S
    ELSE 0

\* the sequences that list every element of the finite set S exactly once
Perms(S) ==
    {s \in [1..Cardinality(S) -> S] : \A i, j \in 1..Cardinality(S) : s[i] = s[j] => i = j}

(***************************************************************************)
(* Time.  86,400 seconds in a day; time.Unix()*1000 gives milliseconds.    *)
(***************************************************************************)
DaySeconds == 86400
MillisPerSecond == 1000
MillisPerDay == DaySeconds * MillisPerSecond

\* the calendar day (UTC) an epoch-millisecond value falls on
CalendarDay(ms) == ms \div MillisPerDay

\* the clock the model starts at, and the length of one tick, in seconds
ClockStep == 60 * 60
ClockStart == DaySeconds + ClockStep

(***************************************************************************)
(* Text.  strings.ToLower on one token.                                    *)
(***************************************************************************)
ToLower(t) ==
    CASE t = "Buy" -> "buy"
      [] t = "BUY" -> "buy"
      [] t = "Stop" -> "stop"
      [] t = "Target" -> "target"
      [] t = "Widget" -> "widget"
      [] t = "Inc" -> "inc"
      [] t = "NYSE:" -> "nyse:"
      [] t = "NASDAQ:" -> "nasdaq:"
      [] t = "WDG" -> "wdg"
      [] t = "ACME" -> "acme"
      [] t = "XYZ" -> "xyz"
      [] t = "THE" -> "the"
      [] OTHER -> t

LowerText(text) == [i \in DOMAIN text |-> ToLower(text[i])]

\* markup tokens: bluemonday's StripTagsPolicy removes them
TagTokens == {"<p>", "</p>", "<b>", "</b>", "<br>"}

\* tokens that match [A-Z]{2,5} as a whole word
UpperWords == {"WDG", "ACME", "XYZ", "THE", "BUY"}

\* tokens that match \d+\.?\d* as a whole, and what strconv.ParseFloat makes of
\* them, in cents
NumberTokens == {"0", "10", "11", "15", "45", "50", "65", "12.50", "9{400}"}

\* a number of 400 digits: strconv.ParseFloat returns ErrRange for it
OutOfRange == {"9{400}"}

ParseFloat(t) ==
    CASE t = "0" -> 0
      [] t = "10" -> 1000
      [] t = "11" -> 1100
      [] t = "15" -> 1500
      [] t = "45" -> 4500
      [] t = "50" -> 5000
      [] t = "65" -> 6500
      [] t = "12.50" -> 1250

\* the first 1000 bytes of the body; bodies are counted in tokens here
HtmlLimit == 1000

Truncate(html) == IF Len(html) > HtmlLimit THEN SubSeq(html, 1, HtmlLimit) ELSE html

\* bluemonday.StripTagsPolicy().Sanitize followed by the whitespace clean-up
StripTags(html) == SelectSeq(html, LAMBDA t : t \notin TagTokens)

(***************************************************************************)
(* extractTicker (parser.go).                                              *)
(***************************************************************************)
exclusionWords ==
    {"BUY", "SELL", "STOP", "TARGET", "PRICE", "ENTRY", "EXIT", "LOSS", "PROFIT",
     "TAKE", "AT", "TO", "FROM", "AND", "OR", "THE"}

AcceptTicker(t) == t \notin exclusionWords /\ t \in UpperWords

\* \(\s*EXCH:\s*([A-Z]{2,5})\s*\) : the leftmost "(" EXCH T ")" in the text
ParenExchangeMatch(text, exch) ==
    LET hits == {i \in 1..(Len(text) - 3) :
                    /\ text[i] = "("
                    /\ text[i+1] = exch
                    /\ text[i+2] \in UpperWords
                    /\ text[i+3] = ")"}
    IN  IF hits = {} THEN ""
        ELSE text[(CHOOSE i \in hits : \A j \in hits : i <= j) + 2]

\* EXCH:\s*([A-Z]{2,5})\b : the leftmost EXCH T in the text
BareExchangeMatch(text, exch) ==
    LET hits == {i \in 1..(Len(text) - 1) :
                    text[i] = exch /\ text[i+1] \in UpperWords}
    IN  IF hits = {} THEN ""
        ELSE text[(CHOOSE i \in hits : \A j \in hits : i <= j) + 1]

exchangeMatches(text) ==
    << ParenExchangeMatch(text, "NASDAQ:"),
       ParenExchangeMatch(text, "NYSE:"),
       BareExchangeMatch(text, "NASDAQ:"),
       BareExchangeMatch(text, "NYSE:") >>

\* \b([A-Z]{2,5})\s*(?:buy|BUY) : a ticker-shaped word followed by buy
TickerThenBuy(text) ==
    LET hits == {i \in 1..(Len(text) - 1) :
                    text[i] \in UpperWords /\ text[i+1] \in {"buy", "BUY"}}
    IN  IF hits = {} THEN ""
        ELSE text[CHOOSE i \in hits : \A j \in hits : i <= j]

\* (?:buy|BUY)\s*([A-Z]{2,5})\b : buy followed by a ticker-shaped word
BuyThenTicker(text) ==
    LET hits == {i \in 1..(Len(text) - 1) :
                    text[i] \in {"buy", "BUY"} /\ text[i+1] \in UpperWords}
    IN  IF hits = {} THEN ""
        ELSE text[(CHOOSE i \in hits : \A j \in hits : i <= j) + 1]

\* (?:symbol|ticker|stock)[:=]?\s*([A-Z]{2,5})\b
ExplicitTicker(text) ==
    LET hits == {i \in 1..(Len(text) - 1) :
                    /\ text[i] \in {"symbol", "ticker", "stock", "symbol:", "ticker:", "stock:"}
                    /\ text[i+1] \in UpperWords}
    IN  IF hits = {} THEN ""
        ELSE text[(CHOOSE i \in hits : \A j \in hits : i <= j) + 1]

\* \b([A-Z]{2,5})\s+at\s+\$?\d+
TickerAtPrice(text) ==
    LET hits == {i \in 1..(Len(text) - 2) :
                    /\ text[i] \in UpperWords
                    /\ text[i+1] = "at"
                    /\ text[i+2] \in NumberTokens}
    IN  IF hits = {} THEN ""
        ELSE text[CHOOSE i \in hits : \A j \in hits : i <= j]

\* \b([A-Z]{2,5})\s*[-:]\s*\$?\d+
TickerDashPrice(text) ==
    LET hits == {i \in 1..(Len(text) - 2) :
                    /\ text[i] \in UpperWords
                    /\ text[i+1] \in {"-", ":"}
                    /\ text[i+2] \in NumberTokens}
    IN  IF hits = {} THEN ""
        ELSE text[CHOOSE i \in hits : \A j \in hits : i <= j]

\* each proximity pattern is tried on plainText and then on htmlLower
proximityMatches(plainText, htmlLower) ==
    << TickerThenBuy(plainText), TickerThenBuy(htmlLower),
       BuyThenTicker(plainText), BuyThenTicker(htmlLower),
       ExplicitTicker(plainText), ExplicitTicker(htmlLower),
       TickerAtPrice(plainText), TickerAtPrice(htmlLower),
       TickerDashPrice(plainText), TickerDashPrice(htmlLower) >>

\* a cascade that ends at the first pattern that matched, accepted or not
FirstCandidate(cands) ==
    LET hit == {i \in DOMAIN cands : cands[i] # ""}
        first == IF hit = {} THEN "" ELSE cands[CHOOSE i \in hit : \A j \in hit : i <= j]
    IN  IF first # "" /\ AcceptTicker(first) THEN first ELSE ""

\* the first accepted candidate of a list of pattern results, "" if none
FirstAccepted(cands) ==
    LET ok == {i \in DOMAIN cands : cands[i] # "" /\ AcceptTicker(cands[i])}
    IN  IF ok = {} THEN "" ELSE cands[CHOOSE i \in ok : \A j \in ok : i <= j]

\* an extractor that tries the proximity patterns before the exchange patterns
extractTickerProximityFirst(plainText, htmlLower) ==
    LET tier2 == FirstAccepted(proximityMatches(plainText, htmlLower))
    IN  IF tier2 # "" THEN tier2
        ELSE FirstAccepted(exchangeMatches(plainText))

extractTicker(plainText, htmlLower) ==
    LET tier1 == FirstAccepted(exchangeMatches(plainText))
    IN  IF tier1 # "" THEN tier1
        ELSE FirstAccepted(proximityMatches(plainText, htmlLower))

(***************************************************************************)
(* extractBuyPrice, extractStopPrice, extractTargetPrice (parser.go).      *)
(***************************************************************************)
\* key.*?(?:at|@|price|:)?\s*\$?(\d+\.?\d*) : the lazy .*? makes the capture the
\* first number after the leftmost keyword that has a number after it
LazyPriceMatch(text, keys) ==
    LET k == FirstIn(text, keys, 1)
        n == IF k = 0 THEN 0 ELSE FirstIn(text, NumberTokens, k + 1)
    IN  IF n = 0 THEN "" ELSE text[n]

\* key\s+(?:at\s+)?\$?(\d+\.?\d*) : the keyword directly followed by the number
StrictPriceMatch(text, key) ==
    LET hits == {i \in 1..Len(text) :
                    /\ text[i] = key
                    /\ \/ i + 1 <= Len(text) /\ text[i+1] \in NumberTokens
                       \/ i + 2 <= Len(text) /\ text[i+1] = "at" /\ text[i+2] \in NumberTokens}
        i == CHOOSE i \in hits : \A j \in hits : i <= j
    IN  IF hits = {} THEN ""
        ELSE IF text[i+1] \in NumberTokens THEN text[i+1] ELSE text[i+2]

\* the price of the first pattern that matched, 0 if its capture does not parse
FirstMatchPrice(caps) ==
    LET hit == {i \in DOMAIN caps : caps[i] # ""}
        first == IF hit = {} THEN "" ELSE caps[CHOOSE i \in hit : \A j \in hit : i <= j]
    IN  IF first = "" \/ first \in OutOfRange THEN 0 ELSE ParseFloat(first)

\* the price of the first pattern result that matched and parses; 0 (the zero
\* value) if none
FirstPrice(caps) ==
    LET ok == {i \in DOMAIN caps : caps[i] # "" /\ caps[i] \notin OutOfRange}
    IN  IF ok = {} THEN 0 ELSE ParseFloat(caps[CHOOSE i \in ok : \A j \in ok : i <= j])

extractBuyPrice(htmlLower) ==
    FirstPrice(<< LazyPriceMatch(htmlLower, {"buy"}),
                  LazyPriceMatch(htmlLower, {"entry"}),
                  StrictPriceMatch(htmlLower, "buy") >>)

extractStopPrice(htmlLower) ==
    FirstPrice(<< LazyPriceMatch(htmlLower, {"stop", "stop-loss", "stoploss"}),
                  LazyPriceMatch(htmlLower, {"sl", "s.l."}),
                  StrictPriceMatch(htmlLower, "stop") >>)

extractTargetPrice(htmlLower) ==
    FirstPrice(<< LazyPriceMatch(htmlLower, {"target", "take-profit", "takeprofit"}),
                  LazyPriceMatch(htmlLower, {"tp", "t.p."}),
                  StrictPriceMatch(htmlLower, "target") >>)

(***************************************************************************)
(* The remote mailbox.  A message's payload is its part tree in pre-order  *)
(* (the order both builds walk it in); a part has a MIME type, data and    *)
(* whether the data decodes as URL-safe base64.                            *)
(***************************************************************************)
Part(mime, data, decodes) == [MimeType |-> mime, Data |-> data, Decodes |-> decodes]

Message(id, thread, internalDate, subject, snippet, payload) ==
    [Id |-> id, ThreadId |-> thread, InternalDate |-> internalDate,
     Subject |-> subject, Snippet |-> snippet, Payload |-> payload]

BodyWDG ==
    <<"<p>", "Widget", "Inc", "(", "NYSE:", "WDG", ")", "Buy", "at", "50",
      "Stop", "45", "Target", "65", "</p>">>
BodyACME ==
    <<"(", "NASDAQ:", "ACME", ")", "buy", "at", "12.50", "stop", "11", "target", "15">>
\* a ticker, a buy price and a target price, no stop price
BodyNoStop == <<"XYZ", "buy", "at", "10", "<br>", "target", "15", "stop", "later">>
\* a buy price and no ticker
BodyNoTicker == <<"buy", "at", "12.50", "stop", "11", "target", "15">>
\* a ticker and a buy price of 0
BodyZeroBuy == <<"(", "NYSE:", "ACME", ")", "buy", "at", "0", "stop", "11", "target", "15">>
\* not a candidate: no stop and no target keyword
BodyNews == <<"Widget", "Inc", "news">>

MessageIds == {"m1", "m2", "m3"}

\* milliseconds: 10:00 on day 0, one hour later, and the same time on day 1
DateNoon == 36000 * MillisPerSecond
DateLater == DateNoon + ClockStep * MillisPerSecond
DateNextDay == DateNoon + MillisPerDay

HtmlMessage(id, thread, internalDate, body) ==
    Message(id, thread, internalDate, "alert", <<"alert", id>>,
            << Part("multipart/alternative", <<>>, TRUE), Part("text/html", body, TRUE) >>)

\* the mailboxes a behaviour may run against: m1 and m2 are in thread t1, m3 in t2
Mailboxes ==
    { [id \in MessageIds |->
          CASE id = "m1" -> HtmlMessage("m1", "t1", DateNoon, BodyWDG)
            [] id = "m2" -> HtmlMessage("m2", "t1", d2, BodyACME)
            [] id = "m3" -> HtmlMessage("m3", "t2", d3, b3)] :
      d2 \in {DateNoon, DateLater, DateNextDay},
      d3 \in {0, DateNextDay},
      b3 \in {BodyNoStop, BodyNoTicker, BodyZeroBuy, BodyNews} }

(***************************************************************************)
(* Records of the Go program.                                              *)
(***************************************************************************)
EmailSignal(id, thread, date, html) ==
    [ID |-> id, ThreadID |-> thread, Date |-> date, HTML |-> html]

TradingSignal(id, ticker, date, buy, stop, target) ==
    [EmailID |-> id, Ticker |-> ticker,
     SignalDate |-> date * MillisPerSecond,
     EntryDate |-> (date + DaySeconds) * MillisPerSecond,
     BuyPrice |-> buy, StopPrice |-> stop, TargetPrice |-> target]

\* a signal that keeps the stop and target prices found in the body
PartialSignal(email) ==
    TradingSignal(email.ID, "", email.Date, 0,
                  extractStopPrice(LowerText(StripTags(email.HTML))),
                  extractTargetPrice(LowerText(StripTags(email.HTML))))

\* the zero-valued signal parseSignalFromEmail stores when extraction returns nil
EmptySignal(email) == TradingSignal(email.ID, "", email.Date, 0, 0, 0)

(***************************************************************************)
(* extractTradingSignalWithText: parser.go (split build) and main.go.      *)
(* The result is the signal (ok = FALSE for nil) and the cleaned text.     *)
(***************************************************************************)
ValidateSignal(signal) == ~(signal.Ticker = "" \/ signal.BuyPrice = 0)

\* phrases a body may hold a ticker in: exchange-qualified with and without
\* parentheses, exchange-qualified with an excluded word, the five proximity
\* forms, and a phrase without a ticker
TickerPhrases ==
    { <<"(", "NYSE:", "WDG", ")">>, <<"NASDAQ:", "XYZ">>, <<"(", "NASDAQ:", "THE", ")">>,
      <<"ACME", "BUY">>, <<"buy", "ACME">>, <<"ticker:", "XYZ">>,
      <<"ACME", "at", "10">>, <<"XYZ", "-", "10">>, <<"Widget", "Inc">>,
      <<"THE", "BUY">> }

\* the words that make a body a candidate of Extraction
SignalTail == <<"buy", "at", "10", "stop", "11", "target", "15">>

\* the phrases of a list, one after the other
RECURSIVE Flatten(_)
Flatten(phrases) ==
    IF phrases = <<>> THEN <<>> ELSE Head(phrases) \o Flatten(Tail(phrases))

\* bodies of up to MaxPhrases phrases, followed by the signal words
TickerBodies ==
    {Flatten(phrases) \o SignalTail :
        phrases \in UNION {[1..n -> TickerPhrases] : n \in 0..MaxPhrases}}

\* phrases a body may hold a price in: a buy price after the keyword, a buy
\* keyword followed by a number out of range or by no number, an entry price, a
\* stop price out of range, a stop price after sl
PricePhrases ==
    { <<"buy", "at", "10">>, <<"buy", "9{400}">>, <<"buy", "now">>,
      <<"entry", "12.50">>, <<"stop", "9{400}">>, <<"sl", "45">> }

\* bodies of a ticker, up to MaxPhrases price phrases, a stop and a target price
PriceBodies ==
    {<<"(", "NYSE:", "WDG", ")">> \o Flatten(phrases) \o <<"stop", "11", "target", "15">> :
        phrases \in UNION {[1..n -> PricePhrases] : n \in 1..MaxPhrases}}

\* bodies longer than the limit of extractTradingSignalWithText: a ticker that
\* ends at the limit with the prices behind it, and a whole signal before the
\* limit with more text behind it
LongBodies ==
    LET filler(n) == [i \in 1..n |-> "news"]
        head == filler(HtmlLimit - 4) \o <<"(", "NASDAQ:", "ACME", ")">>
    IN  {head \o tail : tail \in {BodyNoTicker,
                                  <<"buy", "at", "10", "stop", "11", "target", "15">>}}
          \cup {BodyACME \o filler(HtmlLimit) \o tail :
                    tail \in {<<>>, <<"buy", "at", "10">>}}

\* the bodies of the mailboxes
Bodies ==
    {BodyWDG, BodyACME, BodyNoStop, BodyNoTicker, BodyZeroBuy, BodyNews}
        \cup TickerBodies \cup PriceBodies \cup LongBodies

\* the four extractors applied to a text and its lower-case form
ExtractFields(plainText, htmlLower) ==
    [Ticker |-> extractTicker(plainText, htmlLower),
     BuyPrice |-> extractBuyPrice(htmlLower),
     StopPrice |-> extractStopPrice(htmlLower),
     TargetPrice |-> extractTargetPrice(htmlLower)]

\* parser.go: the body is cut to 1000 bytes, stripped of markup and lower-cased;
\* the result is tabulated per body
ExtractedSplit ==
    [html \in Bodies |->
        LET plainText == StripTags(Truncate(html))
            cleanedText == LowerText(plainText)
        IN  [fields |-> ExtractFields(plainText, cleanedText), text |-> cleanedText]]

\* main.go: the whole body is stripped of markup; the stripped text is kept as it is
ExtractedMain ==
    [html \in Bodies |->
        LET htmlStripped == StripTags(html)
        IN  [fields |-> ExtractFields(htmlStripped, LowerText(htmlStripped)),
             text |-> htmlStripped]]

SignalOf(email, fields) ==
    TradingSignal(email.ID, fields.Ticker, email.Date,
                  fields.BuyPrice, fields.StopPrice, fields.TargetPrice)

extractTradingSignalWithText(email) ==
    LET x == ExtractedSplit[email.HTML]
    IN  [ok |-> ValidateSignal(x.fields), signal |-> SignalOf(email, x.fields),
         text |-> x.text]

extractTradingSignalWithTextMain(email) ==
    LET x == ExtractedMain[email.HTML]
    IN  [ok |-> ValidateSignal(x.fields), signal |-> SignalOf(email, x.fields),
         text |-> x.text]

(***************************************************************************)
(* Store statements.  A table is the sequence of its rows in rowid order   *)
(* (the AUTOINCREMENT id of a row is its index); emails and email_landing  *)
(* are sets of rows.  A statement yields the new table and whether it      *)
(* succeeded.                                                              *)
(***************************************************************************)
StagingRow(id, signal, rawHtml, parsedText) ==
    [email_id |-> id, ticker |-> signal.Ticker,
     signal_date |-> signal.SignalDate, entry_date |-> signal.EntryDate,
     buy_price |-> signal.BuyPrice, stop_price |-> signal.StopPrice,
     target_price |-> signal.TargetPrice,
     raw_html |-> rawHtml, parsed_text |-> parsedText]

\* an INSERT without the ON CONFLICT clause and without the UNIQUE constraint
AppendRow(tbl, row) == Append(tbl, row)

\* INSERT ... ON CONFLICT(email_id) DO UPDATE SET every other column
UpsertByEmailId(tbl, row) ==
    IF \E i \in DOMAIN tbl : tbl[i].email_id = row.email_id
    THEN [i \in DOMAIN tbl |-> IF tbl[i].email_id = row.email_id THEN row ELSE tbl[i]]
    ELSE Append(tbl, row)

\* database.go: raw_html takes the cleaned text, parsed_text stays empty
saveToParseBuyStopTarget(tbl, email, signal, htmlStripped) ==
    UpsertByEmailId(tbl, StagingRow(email.ID, signal, htmlStripped, <<>>))

\* main.go: raw_html takes the e-mail's html, parsed_text the stripped text
saveToParseBuyStopTargetMain(tbl, email, signal, htmlStripped) ==
    UpsertByEmailId(tbl, StagingRow(signal.EmailID, signal, email.HTML, htmlStripped))

\* a WHERE clause without the test of stop_price
IsCleanRowNoStop(r) ==
    /\ r.ticker # ""
    /\ r.buy_price > 0
    /\ r.target_price > 0

\* the WHERE clause of getCleanSignals / getCleanSignalsFromParsing
IsCleanRow(r) ==
    /\ r.ticker # ""
    /\ r.buy_price > 0
    /\ r.stop_price > 0
    /\ r.target_price > 0

CleanSignal(r) ==
    [EmailID |-> r.email_id, Ticker |-> r.ticker, SignalDate |-> r.signal_date,
     EntryDate |-> r.entry_date, BuyPrice |-> r.buy_price, StopPrice |-> r.stop_price,
     TargetPrice |-> r.target_price]

\* the results a query with ORDER BY signal_date DESC may return: rows with equal
\* dates come in any order
OrderBySignalDateDesc(S) ==
    {s \in Perms(S) : \A i, j \in DOMAIN s : i < j => s[i].SignalDate >= s[j].SignalDate}

getCleanSignals(tbl) ==
    OrderBySignalDateDesc({CleanSignal(tbl[i]) : i \in {j \in DOMAIN tbl : IsCleanRow(tbl[j])}})

TradeSignalRow(signal) ==
    [email_id |-> signal.EmailID, ticker |-> signal.Ticker,
     signal_date |-> signal.SignalDate, entry_date |-> signal.EntryDate,
     buy_price |-> signal.BuyPrice, stop_price |-> signal.StopPrice,
     target_price |-> signal.TargetPrice]

\* a look-up that compares the date with the entry date of the rows
EntryDateExists(tbl, signalDate) == \E i \in DOMAIN tbl : tbl[i].entry_date = signalDate

\* SELECT email_id FROM trade_signals WHERE signal_date = ? LIMIT 1 finds a row


SignalDateExists(tbl, signalDate) == \E i \in DOMAIN tbl : tbl[i].signal_date = signalDate

\* an INSERT that replaces the row of the same email_id
InsertTradeSignalReplacing(tbl, signal) ==
    [ok |-> TRUE, tbl |-> UpsertByEmailId(tbl, TradeSignalRow(signal))]

\* database.go: a plain INSERT; email_id is UNIQUE, so a second row for the same
\* email_id is refused
\* an INSERT into a table without the UNIQUE constraint on email_id
InsertTradeSignalNoUnique(tbl, signal) ==
    [ok |-> TRUE, tbl |-> Append(tbl, TradeSignalRow(signal))]

InsertTradeSignal(tbl, signal) ==
    IF \E i \in DOMAIN tbl : tbl[i].email_id = signal.EmailID
    THEN [ok |-> FALSE, tbl |-> tbl]
    ELSE [ok |-> TRUE, tbl |-> Append(tbl, TradeSignalRow(signal))]

\* main.go: INSERT ... ON CONFLICT(email_id) DO UPDATE SET every other column
InsertTradeSignalMain(tbl, signal) ==
    [ok |-> TRUE, tbl |-> UpsertByEmailId(tbl, TradeSignalRow(signal))]

(***************************************************************************)
(* The emails table and the queries of Signal Extraction.                  *)
(***************************************************************************)
\* extractHTMLFromPart (database.go): the first text/html part, in pre-order, that
\* has data and decodes
extractHTMLFromMessage(msg) ==
    LET hits == {i \in DOMAIN msg.Payload :
                    /\ msg.Payload[i].MimeType = "text/html"
                    /\ msg.Payload[i].Data # <<>>
                    /\ msg.Payload[i].Decodes}
    IN  IF hits = {} THEN <<>>
        ELSE msg.Payload[CHOOSE i \in hits : \A j \in hits : i <= j].Data

\* the row upsertFullEmailToDB of database.go writes at time t: the date is the
\* internal date, in seconds, or the current time when the internal date is 0
FullEmailRow(msg, t) ==
    [id |-> msg.Id, thread_id |-> msg.ThreadId, subject |-> msg.Subject,
     date |-> (IF msg.InternalDate = 0 THEN t * MillisPerSecond ELSE msg.InternalDate)
                  \div MillisPerSecond,
     snippet |-> msg.Snippet, html |-> extractHTMLFromMessage(msg)]

\* the last part of the given MIME type that has data: processPayload of main.go
\* overwrites its variable at every such part
LastPartData(msg, mime) ==
    LET hits == {i \in DOMAIN msg.Payload :
                    msg.Payload[i].MimeType = mime /\ msg.Payload[i].Data # <<>>}
    IN  IF hits = {} THEN <<>>
        ELSE msg.Payload[CHOOSE i \in hits : \A j \in hits : i >= j].Data

\* processPayload of main.go fails when a text part with data does not decode
PayloadDecodes(msg) ==
    \A i \in DOMAIN msg.Payload :
        (msg.Payload[i].MimeType \in {"text/plain", "text/html"} /\ msg.Payload[i].Data # <<>>)
            => msg.Payload[i].Decodes

\* the first 200 bytes of the snippet source; counted in tokens here
SnippetLimit == 200

\* the row upsertFullEmailToDB of main.go writes: the date column takes the
\* internal date as it is, in milliseconds
FullEmailRowMain(msg) ==
    LET plainText == LastPartData(msg, "text/plain")
        html == LastPartData(msg, "text/html")
        source == IF plainText # <<>> THEN plainText ELSE StripTags(html)
        snippet == IF Len(source) > SnippetLimit
                   THEN SubSeq(source, 1, SnippetLimit) \o <<"...">>
                   ELSE source
    IN  [id |-> msg.Id, thread_id |-> msg.ThreadId, subject |-> msg.Subject,
         date |-> msg.InternalDate, snippet |-> snippet,
         plain_text |-> plainText, html |-> html]

\* an INSERT that adds a row whatever rows there are
InsertEmail(tbl, row) == tbl \cup {row}

\* INSERT INTO emails ... ON CONFLICT(id) DO UPDATE SET every other column
UpsertEmail(tbl, row) == {r \in tbl : r.id # row.id} \cup {row}

upsertFullEmailToDB(tbl, msg, t) == UpsertEmail(tbl, FullEmailRow(msg, t))

upsertFullEmailToDBMain(tbl, msg) == UpsertEmail(tbl, FullEmailRowMain(msg))

\* WHERE html IS NOT NULL AND LOWER(html) LIKE '%buy%' AND ... '%stop%' AND ... '%target%'
IsSignalEmail(r) == {"buy", "stop", "target"} \subseteq Range(LowerText(r.html))

\* the time.Time the split build reads back for a row: the stored date when the
\* string the driver hands over parses as "2006-01-02 15:04:05", the current time
\* when it does not
ScannedDates(r, t) == {r.date, t}

\* the results of a query with ORDER BY date DESC
OrderByDateDesc(S) ==
    {s \in Perms(S) : \A i, j \in DOMAIN s : i < j => s[i].Date >= s[j].Date}

\* getSignalEmails (database.go) at time t: the possible result lists
getSignalEmails(tbl, t) ==
    LET cands == {r \in tbl : IsSignalEmail(r)}
        choices == {f \in [cands -> {r.date : r \in cands} \cup {t}] :
                        \A r \in cands : f[r] \in ScannedDates(r, t)}
    IN  UNION { OrderByDateDesc({EmailSignal(r.id, r.thread_id, f[r], r.html) : r \in cands}) :
                f \in choices }

\* getBuySignalEmails (main.go): the date column, in milliseconds, scanned as a time
getBuySignalEmails(tbl) ==
    OrderByDateDesc({EmailSignal(r.id, r.thread_id, r.date \div MillisPerSecond, r.html) :
                        r \in {x \in tbl : IsSignalEmail(x)}})

\* parseSignalFromEmail (parser.go): extract, substitute the empty signal for nil,
\* and save; the result is the new staging table
parseSignalFromEmail(tbl, email) ==
    LET x == extractTradingSignalWithText(email)
        signal == IF x.ok THEN x.signal ELSE EmptySignal(email)
    IN  saveToParseBuyStopTarget(tbl, email, signal, x.text)

\* parseAndSaveSignal (main.go)
parseAndSaveSignal(tbl, email) ==
    LET x == extractTradingSignalWithTextMain(email)
        signal == IF x.ok THEN x.signal ELSE EmptySignal(email)
    IN  saveToParseBuyStopTargetMain(tbl, email, signal, x.text)

(***************************************************************************)
(* The email_landing table.                                                *)
(***************************************************************************)
\* a statement that empties the table before it inserts the row
ReplaceLanding(tbl, msg) == {[threadid |-> msg.ThreadId, content |-> msg.Snippet]}

\* saveEmailToLanding (database.go): INSERT OR REPLACE of (threadid, snippet)
saveEmailToLanding(tbl, msg) ==
    LET content == IF msg.Snippet = <<>> THEN <<"No content">> ELSE msg.Snippet
    IN  {r \in tbl : r.threadid # msg.ThreadId}
            \cup {[threadid |-> msg.ThreadId, content |-> content]}

\* processPayload of saveEmailToDB (main.go) over parts i..Len: a text/plain part
\* with data overwrites the content, a text/html part with data sets it only while
\* it is still empty
RECURSIVE LandingContent(_, _, _)
LandingContent(parts, i, content) ==
    IF i > Len(parts) THEN content
    ELSE LET p == parts[i]
             next == IF p.MimeType = "text/plain" /\ p.Data # <<>> THEN p.Data
                     ELSE IF p.MimeType = "text/html" /\ content = <<>> /\ p.Data # <<>>
                          THEN p.Data
                          ELSE content
         IN  LandingContent(parts, i + 1, next)

\* saveEmailToDB (main.go): INSERT OR IGNORE of (threadid, content)
saveEmailToDB(tbl, msg) ==
    IF \E r \in tbl : r.threadid = msg.ThreadId
    THEN tbl
    ELSE tbl \cup {[threadid |-> msg.ThreadId,
                    content |-> LandingContent(msg.Payload, 1, <<>>)]}

\* getThreadIDsFromLanding: the thread keys of email_landing
getThreadIDsFromLanding(tbl) == {r.threadid : r \in tbl}

\* the messages of a thread, as Users.Threads.Get lists them
ThreadMessages(mailbox, threadId) ==
    {id \in DOMAIN mailbox : mailbox[id].ThreadId = threadId}

(***************************************************************************)
(* Tables as a run of an upstream stage without failures leaves them; the  *)
(* stage specifications start from these.                                  *)
(***************************************************************************)
RECURSIVE LandedAll(_, _, _)
LandedAll(bld, mailbox, ids) ==
    IF ids = {} THEN {}
    ELSE LET id == CHOOSE x \in ids : TRUE
             rest == LandedAll(bld, mailbox, ids \ {id})
         IN  IF bld = "main" THEN saveEmailToDB(rest, mailbox[id])
             ELSE saveEmailToLanding(rest, mailbox[id])

RECURSIVE EnrichedAll(_, _, _, _)
EnrichedAll(bld, mailbox, ids, t) ==
    IF ids = {} THEN {}
    ELSE LET id == CHOOSE x \in ids : TRUE
             rest == EnrichedAll(bld, mailbox, ids \ {id}, t)
         IN  IF bld = "main" THEN upsertFullEmailToDBMain(rest, mailbox[id])
             ELSE upsertFullEmailToDB(rest, mailbox[id], t)

\* the staging table after the jobs of list, from position i on, have been parsed
\* and saved
RECURSIVE ParsedAll(_, _, _, _)
ParsedAll(bld, tbl, list, i) ==
    IF i > Len(list) THEN tbl
    ELSE ParsedAll(bld,
                   IF bld = "main" THEN parseAndSaveSignal(tbl, list[i])
                   ELSE parseSignalFromEmail(tbl, list[i]),
                   list, i + 1)

(***************************************************************************)
(* State.                                                                  *)
(***************************************************************************)
VARIABLES
    build,                  \* "split" or "main": which build runs
    remote,                 \* the remote mailbox: message id -> message
    now,                    \* time.Now(), in epoch seconds
    faults,                 \* remote calls and store statements that have failed
    email_landing,          \* table email_landing: set of rows
    emails,                 \* table emails: set of rows
    parse_buy_stop_target,  \* table parse_buy_stop_target: rows in rowid order
    trade_signals,          \* table trade_signals: rows in rowid order
    stage,                  \* the stage of the current (or last) run
    pc,                     \* the stage function: "idle", "running" or "done"
    ret,                    \* what the stage function returned: "none", "nil", "error"
    runs,                   \* stage runs started so far
    jobList,                \* the slice the job channel is fed from
    sent,                   \* how many jobs the sender has put on the channel
    jobs,                   \* the buffered job channel
    jobsClosed,
    results,                \* the buffered result channel
    resultsClosed,
    wk,                     \* per worker: pc, the job in hand, the result to send
    successCount,
    errorCount,
    hist                    \* history of the current run, for stating properties

storeVars == <<email_landing, emails, parse_buy_stop_target, trade_signals>>
poolVars == <<jobList, sent, jobs, jobsClosed, results, resultsClosed, wk,
              successCount, errorCount>>
vars == <<build, remote, now, faults, storeVars, stage, pc, ret, runs, poolVars, hist>>

NoJob == [none |-> TRUE]
IdleWorkers == [w \in Workers |-> [pc |-> "idle", job |-> NoJob, err |-> "ok"]]

\* history kept per run: the rows of the table the stage writes, as they were at
\* its start, the keys of the jobs that returned nil, and the tables a statement
\* of the run has written
NoHist ==
    [tsAtStart |-> <<>>, emailsAtStart |-> {}, landingAtStart |-> {},
     stagedAtStart |-> <<>>, okJobs |-> {}, wrote |-> {}]

\* may one more remote call or store statement fail?
MayFail == faults < MaxFaults

(***************************************************************************)
(* The worker pool every stage function builds: a job channel and a result *)
(* channel, both buffered to len(items); numWorkers workers; a goroutine   *)
(* that waits for the workers and closes the result channel; the stage     *)
(* function collects the results.  In the split build a goroutine sends    *)
(* the jobs; in main.go the stage function sends them itself, before it    *)
(* starts collecting.                                                      *)
(***************************************************************************)
StartPool(stg, items) ==
    /\ stage' = stg
    /\ pc' = "running"
    /\ ret' = "none"
    /\ jobList' = items
    /\ sent' = 0
    /\ jobs' = <<>>
    /\ jobsClosed' = FALSE
    /\ results' = <<>>
    /\ resultsClosed' = FALSE
    /\ wk' = [w \in Workers |-> [pc |-> "recv", job |-> NoJob, err |-> "ok"]]
    /\ successCount' = 0
    /\ errorCount' = 0

\* a return that leaves the workers of a pool waiting for jobs
ReturnWithPool(stg, value) ==
    /\ stage' = stg
    /\ pc' = "done"
    /\ ret' = value
    /\ jobList' = <<>>
    /\ sent' = 0
    /\ jobs' = <<>>
    /\ jobsClosed' = FALSE
    /\ results' = <<>>
    /\ resultsClosed' = FALSE
    /\ wk' = [w \in Workers |-> [pc |-> "recv", job |-> NoJob, err |-> "ok"]]
    /\ successCount' = 0
    /\ errorCount' = 0

\* the stage function returns before it builds a pool
ReturnEarly(stg, value) ==
    /\ stage' = stg
    /\ pc' = "done"
    /\ ret' = value
    /\ jobList' = <<>>
    /\ sent' = 0
    /\ jobs' = <<>>
    /\ jobsClosed' = FALSE
    /\ results' = <<>>
    /\ resultsClosed' = FALSE
    /\ wk' = IdleWorkers
    /\ successCount' = 0
    /\ errorCount' = 0

CanStart == pc \in {"idle", "done"} /\ runs < MaxRuns

\* for _, item := range items { jobs <- item }
SendJob ==
    /\ pc = "running"
    /\ sent < Len(jobList)
    /\ Len(jobs) < Len(jobList)
    /\ jobs' = Append(jobs, jobList[sent + 1])
    /\ sent' = sent + 1
    /\ UNCHANGED <<build, remote, now, faults, storeVars, stage, pc, ret, runs, jobList,
                   jobsClosed, results, resultsClosed, wk, successCount, errorCount, hist>>

\* close(jobs)
CloseJobs ==
    /\ pc = "running"
    /\ sent = Len(jobList)
    /\ ~jobsClosed
    /\ jobsClosed' = TRUE
    /\ UNCHANGED <<build, remote, now, faults, storeVars, stage, pc, ret, runs, jobList,
                   sent, jobs, results, resultsClosed, wk, successCount, errorCount, hist>>

\* the first step of a job in each stage
FirstStep(stg) ==
    CASE stg = "promote" -> "check"
      [] stg = "extract" -> "parse"
      [] stg = "enrich" -> "thread"
      [] stg = "ingest" -> "get"
      [] stg = "fixdate" -> "update"

\* a worker that takes jobs and never sees the channel closed
WorkerReceiveNoClose(w) ==
    /\ pc = "running"
    /\ wk[w].pc = "recv"
    /\ jobs # <<>>
    /\ wk' = [wk EXCEPT ![w] = [pc |-> FirstStep(stage), job |-> Head(jobs), err |-> "ok"]]
    /\ jobs' = Tail(jobs)
    /\ UNCHANGED <<build, remote, now, faults, storeVars, stage, pc, ret, runs, jobList, sent,
                   jobsClosed, results, resultsClosed, successCount, errorCount, hist>>

\* for job := range jobs: take a job, or leave the loop when the channel is closed
\* and drained (wg.Done)
\* a receive that leaves the job in the channel
WorkerReceiveKeeping(w) ==
    /\ pc = "running"
    /\ wk[w].pc = "recv"
    /\ \/ /\ jobs # <<>>
          /\ wk' = [wk EXCEPT ![w] = [pc |-> FirstStep(stage), job |-> Head(jobs), err |-> "ok"]]
          /\ jobs' = jobs
       \/ /\ jobs = <<>>
          /\ jobsClosed
          /\ wk' = [wk EXCEPT ![w] = [pc |-> "done", job |-> NoJob, err |-> "ok"]]
          /\ jobs' = jobs
    /\ UNCHANGED <<build, remote, now, faults, storeVars, stage, pc, ret, runs, jobList, sent,
                   jobsClosed, results, resultsClosed, successCount, errorCount, hist>>

WorkerReceive(w) ==
    /\ pc = "running"
    /\ wk[w].pc = "recv"
    /\ \/ /\ jobs # <<>>
          /\ wk' = [wk EXCEPT ![w] = [pc |-> FirstStep(stage), job |-> Head(jobs), err |-> "ok"]]
          /\ jobs' = Tail(jobs)
       \/ /\ jobs = <<>>
          /\ jobsClosed
          /\ wk' = [wk EXCEPT ![w] = [pc |-> "done", job |-> NoJob, err |-> "ok"]]
          /\ jobs' = jobs
    /\ UNCHANGED <<build, remote, now, faults, storeVars, stage, pc, ret, runs, jobList, sent,
                   jobsClosed, results, resultsClosed, successCount, errorCount, hist>>

\* results <- err
WorkerSendResult(w) ==
    /\ pc = "running"
    /\ wk[w].pc = "send"
    /\ Len(results) < Len(jobList)
    /\ results' = Append(results, wk[w].err)
    /\ wk' = [wk EXCEPT ![w] = [pc |-> "recv", job |-> NoJob, err |-> "ok"]]
    /\ UNCHANGED <<build, remote, now, faults, storeVars, stage, pc, ret, runs, jobList, sent,
                   jobs, jobsClosed, resultsClosed, successCount, errorCount, hist>>

\* a close of the result channel that does not wait for the workers
CloseResultsEarly ==
    /\ pc = "running"
    /\ jobsClosed
    /\ jobs = <<>>
    /\ ~resultsClosed
    /\ resultsClosed' = TRUE
    /\ UNCHANGED <<build, remote, now, faults, storeVars, stage, pc, ret, runs, jobList, sent,
                   jobs, jobsClosed, results, wk, successCount, errorCount, hist>>

\* go func() { wg.Wait(); close(results) }()
CloseResults ==
    /\ pc = "running"
    /\ build = "main" => jobsClosed
    /\ \A w \in Workers : wk[w].pc = "done"
    /\ ~resultsClosed
    /\ resultsClosed' = TRUE
    /\ UNCHANGED <<build, remote, now, faults, storeVars, stage, pc, ret, runs, jobList, sent,
                   jobs, jobsClosed, results, wk, successCount, errorCount, hist>>

\* for err := range results: one iteration
\* a collector whose counts depend on the order of arrival: a result that comes
\* after a failure is counted as a failure
CollectResultInOrder ==
    /\ pc = "running"
    /\ build = "main" => jobsClosed
    /\ results # <<>>
    /\ IF Head(results) = "ok" /\ errorCount = 0
       THEN successCount' = successCount + 1 /\ errorCount' = errorCount
       ELSE errorCount' = errorCount + 1 /\ successCount' = successCount
    /\ results' = Tail(results)
    /\ UNCHANGED <<build, remote, now, faults, storeVars, stage, pc, ret, runs, jobList, sent,
                   jobs, jobsClosed, resultsClosed, wk, hist>>

CollectResult ==
    /\ pc = "running"
    /\ build = "main" => jobsClosed
    /\ results # <<>>
    /\ IF Head(results) = "ok"
       THEN successCount' = successCount + 1 /\ errorCount' = errorCount
       ELSE errorCount' = errorCount + 1 /\ successCount' = successCount
    /\ results' = Tail(results)
    /\ UNCHANGED <<build, remote, now, faults, storeVars, stage, pc, ret, runs, jobList, sent,
                   jobs, jobsClosed, resultsClosed, wk, hist>>

\* what the stage function returns once the result channel is closed and drained:
\* main.go's fetchEmailsFromSender and enrichThreadsWithEmails return an error when
\* any job failed; every other stage function returns nil
StageResult(bld, stg, errors) ==
    IF bld = "main" /\ stg \in {"ingest", "enrich"} /\ errors > 0 THEN "error" ELSE "nil"

\* a collector that returns at the first error result
StageReturnOnError ==
    /\ pc = "running"
    /\ errorCount > 0 \/ (results = <<>> /\ resultsClosed)
    /\ pc' = "done"
    /\ ret' = StageResult(build, stage, errorCount)
    /\ UNCHANGED <<build, remote, now, faults, storeVars, stage, runs, poolVars, hist>>

StageReturn ==
    /\ pc = "running"
    /\ results = <<>>
    /\ resultsClosed
    /\ pc' = "done"
    /\ ret' = StageResult(build, stage, errorCount)
    /\ UNCHANGED <<build, remote, now, faults, storeVars, stage, runs, poolVars, hist>>

\* time passes
Tick ==
    /\ now < ClockStart + MaxTicks * ClockStep
    /\ now' = now + ClockStep
    /\ UNCHANGED <<build, remote, faults, storeVars, stage, pc, ret, runs, poolVars, hist>>

(***************************************************************************)
(* Signal Promotion: processSignalsConcurrently (parser.go) and            *)
(* processSignalsHandler + processCleanSignalsConcurrently (main.go).      *)
(***************************************************************************)
processSignalsConcurrently ==
    /\ CanStart
    /\ runs' = runs + 1
    /\ hist' = [NoHist EXCEPT !.tsAtStart = trade_signals]
    /\ \/ \* the query for the clean signals fails
          /\ MayFail
          /\ faults' = faults + 1
          /\ ReturnEarly("promote", "error")
       \/ /\ faults' = faults
          /\ \E signals \in getCleanSignals(parse_buy_stop_target) :
                IF Len(signals) = 0
                THEN ReturnEarly("promote", "nil")
                ELSE StartPool("promote", signals)
    /\ UNCHANGED <<build, remote, now, storeVars>>

\* upsertToTradeSignals, first statement: the look-up of the signal date
\* a date check that reports an occupied signal_date as a failure of the job
upsertToTradeSignalsCheckStrict(w) ==
    /\ pc = "running"
    /\ stage = "promote"
    /\ wk[w].pc = "check"
    /\ \/ /\ MayFail
          /\ faults' = faults + 1
          /\ wk' = [wk EXCEPT ![w].pc = "send", ![w].err = "err"]
       \/ /\ faults' = faults
          /\ IF SignalDateExists(trade_signals, wk[w].job.SignalDate)
             THEN wk' = [wk EXCEPT ![w].pc = "send", ![w].err = "err"]
             ELSE wk' = [wk EXCEPT ![w].pc = "insert"]
    /\ UNCHANGED <<build, remote, now, storeVars, stage, pc, ret, runs, jobList, sent, jobs,
                   jobsClosed, results, resultsClosed, successCount, errorCount, hist>>

\* an upsert that goes to the insert without looking up the signal_date
upsertToTradeSignalsNoCheck(w) ==
    /\ pc = "running"
    /\ stage = "promote"
    /\ wk[w].pc = "check"
    /\ \/ /\ MayFail
          /\ faults' = faults + 1
          /\ wk' = [wk EXCEPT ![w].pc = "send", ![w].err = "err"]
       \/ /\ faults' = faults
          /\ wk' = [wk EXCEPT ![w].pc = "insert"]
    /\ UNCHANGED <<build, remote, now, storeVars, stage, pc, ret, runs, jobList, sent, jobs,
                   jobsClosed, results, resultsClosed, successCount, errorCount, hist>>

upsertToTradeSignalsCheck(w) ==
    /\ pc = "running"
    /\ stage = "promote"
    /\ wk[w].pc = "check"
    /\ \/ \* the query fails with an error other than sql.ErrNoRows
          /\ MayFail
          /\ faults' = faults + 1
          /\ wk' = [wk EXCEPT ![w].pc = "send", ![w].err = "err"]
       \/ /\ faults' = faults
          /\ IF SignalDateExists(trade_signals, wk[w].job.SignalDate)
             THEN wk' = [wk EXCEPT ![w].pc = "send", ![w].err = "ok"]
             ELSE wk' = [wk EXCEPT ![w].pc = "insert"]
    /\ UNCHANGED <<build, remote, now, storeVars, stage, pc, ret, runs, jobList, sent, jobs,
                   jobsClosed, results, resultsClosed, successCount, errorCount, hist>>

\* upsertToTradeSignals, second statement: the INSERT
upsertToTradeSignalsInsert(w) ==
    /\ pc = "running"
    /\ stage = "promote"
    /\ wk[w].pc = "insert"
    /\ \/ \* Prepare or Exec fails
          /\ MayFail
          /\ faults' = faults + 1
          /\ wk' = [wk EXCEPT ![w].pc = "send", ![w].err = "err"]
          /\ UNCHANGED <<trade_signals, hist>>
       \/ /\ faults' = faults
          /\ LET r == IF build = "main"
                      THEN InsertTradeSignalMain(trade_signals, wk[w].job)
                      ELSE InsertTradeSignal(trade_signals, wk[w].job)
             IN  /\ trade_signals' = r.tbl
                 /\ wk' = [wk EXCEPT ![w].pc = "send",
                                     ![w].err = IF r.ok THEN "ok" ELSE "err"]
                 /\ hist' = [hist EXCEPT !.wrote = IF r.ok THEN @ \cup {"trade_signals"}
                                                   ELSE @]
    /\ UNCHANGED <<build, remote, now, email_landing, emails, parse_buy_stop_target,
                   stage, pc, ret, runs, jobList, sent, jobs, jobsClosed, results,
                   resultsClosed, successCount, errorCount>>

\* a whole run of Signal Extraction between two Promotion runs, every job of it
\* succeeding: the staging rows of all candidates are written again
ExtractionRun ==
    /\ pc \in {"idle", "done"}
    /\ \E list \in (IF build = "main" THEN getBuySignalEmails(emails)
                    ELSE getSignalEmails(emails, now)) :
          parse_buy_stop_target' = ParsedAll(build, parse_buy_stop_target, list, 1)
    /\ parse_buy_stop_target' # parse_buy_stop_target
    /\ UNCHANGED <<build, remote, now, faults, email_landing, emails, trade_signals,
                   stage, pc, ret, runs, poolVars, hist>>

PoolIdle ==
    /\ stage = "none"
    /\ pc = "idle"
    /\ ret = "none"
    /\ jobList = <<>>
    /\ sent = 0
    /\ jobs = <<>>
    /\ jobsClosed = FALSE
    /\ results = <<>>
    /\ resultsClosed = FALSE
    /\ wk = IdleWorkers
    /\ successCount = 0
    /\ errorCount = 0
    /\ hist = NoHist

\* Promotion starts with the mailbox landed and enriched and nothing staged
PromotionMailboxes ==
    {mb \in Mailboxes : mb["m3"].InternalDate = 0 /\ mb["m3"].Payload[2].Data = BodyNoStop}

InitPromotion ==
    /\ build \in {"split", "main"}
    /\ remote \in PromotionMailboxes
    /\ build = "split" => remote["m2"].InternalDate = DateLater
    /\ now = ClockStart
    /\ faults = 0
    /\ email_landing = LandedAll(build, remote, MessageIds)
    /\ emails = EnrichedAll(build, remote, MessageIds, ClockStart)
    /\ parse_buy_stop_target = <<>>
    /\ trade_signals = <<>>
    /\ PoolIdle
    /\ runs = 0

NextPromotion ==
    \/ ExtractionRun
    \/ processSignalsConcurrently
    \/ SendJob
    \/ CloseJobs
    \/ \E w \in Workers : WorkerReceive(w)
    \/ \E w \in Workers : upsertToTradeSignalsCheck(w)
    \/ \E w \in Workers : upsertToTradeSignalsInsert(w)
    \/ \E w \in Workers : WorkerSendResult(w)
    \/ CloseResults
    \/ CollectResult
    \/ StageReturn

SpecPromotion == InitPromotion /\ [][NextPromotion]_vars

(***************************************************************************)
(* Properties of Signal Promotion.                                         *)
(***************************************************************************)
PromotionDone == stage = "promote" /\ pc = "done"

TradeSignalIndexes == DOMAIN trade_signals

\* C1: after any number of Promotion runs no two rows of trade_signals have the
\* same signal_date value.
C1_UniqueSignalDate ==
    \A i, j \in TradeSignalIndexes :
        i # j => trade_signals[i].signal_date # trade_signals[j].signal_date

\* C2: no two trade_signals rows fall on the same calendar day, in particular not
\* two rows whose signals were sent at different times of one day.
C2_OnePerCalendarDay ==
    \A i, j \in TradeSignalIndexes :
        trade_signals[i].signal_date # trade_signals[j].signal_date
            => CalendarDay(trade_signals[i].signal_date)
                   # CalendarDay(trade_signals[j].signal_date)

\* the trade_signals rows that hold one of the two signals at the given date
PromotedOf(a, b) ==
    {i \in TradeSignalIndexes :
        /\ trade_signals[i].email_id \in {a.EmailID, b.EmailID}
        /\ trade_signals[i].signal_date = a.SignalDate}

\* C3: a Promotion run over two distinct clean staging rows with the same
\* signal_date, that date not yet in trade_signals, ends (every job returning
\* success) with exactly one of the two in trade_signals.
C3_ExactlyOnePromoted ==
    (PromotionDone /\ ret = "nil" /\ errorCount = 0) =>
        \A a, b \in Range(jobList) :
            (/\ a.EmailID # b.EmailID
             /\ a.SignalDate = b.SignalDate
             /\ ~SignalDateExists(hist.tsAtStart, a.SignalDate))
                => Cardinality(PromotedOf(a, b)) = 1

C10_RowsNeverChange ==
    [][/\ \A i \in TradeSignalIndexes :
             i \in DOMAIN trade_signals' /\ trade_signals'[i] = trade_signals[i]
       /\ \A w \in Workers :
             (wk[w].pc = "check" /\ wk'[w].pc = "insert")
                 => ~SignalDateExists(trade_signals, wk[w].job.SignalDate)]_vars

\* a later Promotion run has finished in which a candidate was skipped because its
\* date was occupied, and one whose e-mail already had a row under another date
\* left that row as it was
C10_Witness ==
    /\ PromotionDone
    /\ runs > 1
    /\ hist.tsAtStart # <<>>
    /\ \E a \in Range(jobList) : SignalDateExists(hist.tsAtStart, a.SignalDate)
    /\ \E a \in Range(jobList) : \E i \in DOMAIN hist.tsAtStart :
          /\ hist.tsAtStart[i].email_id = a.EmailID
          /\ hist.tsAtStart[i].signal_date # a.SignalDate
          /\ ~SignalDateExists(hist.tsAtStart, a.SignalDate)
          /\ trade_signals[i] = hist.tsAtStart[i]

\* the signal is in trade_signals as its staging row has it
AlreadyPromoted(signal) ==
    \E i \in TradeSignalIndexes : trade_signals[i] = TradeSignalRow(signal)

\* C11: in a Promotion run, a job whose signal is already in trade_signals as
\* staged ends with nil and adds no row (its statements being answered); no
\* message id ever has two rows; a step leaves the rows there are as they are, and
\* a row it adds is the row of a job whose message id had no row and whose date
\* had no row when the run started.
C11_RerunSkipsPromoted ==
    [][/\ \A w \in Workers :
             (/\ stage = "promote"
              /\ wk[w].pc \in {"check", "insert"}
              /\ wk'[w].pc = "send"
              /\ AlreadyPromoted(wk[w].job)
              /\ faults' = faults)
                 => wk'[w].err = "ok" /\ trade_signals' = trade_signals
       /\ \A i, j \in DOMAIN trade_signals' :
             trade_signals'[i].email_id = trade_signals'[j].email_id => i = j
       /\ \A i \in DOMAIN trade_signals' :
             IF i \in TradeSignalIndexes
             THEN trade_signals'[i] = trade_signals[i]
             ELSE \E w \in Workers :
                     /\ stage = "promote"
                     /\ wk[w].pc = "insert"
                     /\ trade_signals'[i] = TradeSignalRow(wk[w].job)
                     /\ \A k \in DOMAIN hist.tsAtStart :
                           /\ hist.tsAtStart[k].email_id # wk[w].job.EmailID
                           /\ hist.tsAtStart[k].signal_date # wk[w].job.SignalDate]_vars

\* a Promotion run whose first job failed has been followed by a second run over
\* the same staging rows, which skipped the promoted signal and promoted the other
C11_Witness ==
    /\ PromotionDone
    /\ runs > 1
    /\ faults > 0
    /\ errorCount = 0
    /\ hist.tsAtStart # <<>>
    /\ Len(trade_signals) > Len(hist.tsAtStart)
    /\ \E a \in Range(jobList) :
          \E i \in DOMAIN hist.tsAtStart : hist.tsAtStart[i] = TradeSignalRow(a)

(***************************************************************************)
(* Signal Extraction: parseSignalsConcurrently and parseSignalFromEmail    *)
(* (parser.go); parseSignalsHandler, parseSignalsConcurrently and          *)
(* parseAndSaveSignal (main.go).                                           *)
(***************************************************************************)
parseSignalsConcurrently ==
    /\ CanStart
    /\ runs' = runs + 1
    /\ hist' = [NoHist EXCEPT !.stagedAtStart = parse_buy_stop_target]
    /\ \/ \* the query for the candidates fails
          /\ MayFail
          /\ faults' = faults + 1
          /\ ReturnEarly("extract", "error")
       \/ /\ faults' = faults
          /\ \E list \in (IF build = "main" THEN getBuySignalEmails(emails)
                          ELSE getSignalEmails(emails, now)) :
                IF Len(list) = 0
                THEN ReturnEarly("extract", "nil")
                ELSE StartPool("extract", list)
    /\ UNCHANGED <<build, remote, now, storeVars>>

\* one job of the pool: extract the signal and save the staging row
parseSignalWorker(w) ==
    /\ pc = "running"
    /\ stage = "extract"
    /\ wk[w].pc = "parse"
    /\ \/ \* Prepare or Exec of the staging statement fails
          /\ MayFail
          /\ faults' = faults + 1
          /\ wk' = [wk EXCEPT ![w].pc = "send", ![w].err = "err"]
          /\ UNCHANGED <<parse_buy_stop_target, hist>>
       \/ /\ faults' = faults
          /\ parse_buy_stop_target' =
                IF build = "main"
                THEN parseAndSaveSignal(parse_buy_stop_target, wk[w].job)
                ELSE parseSignalFromEmail(parse_buy_stop_target, wk[w].job)
          /\ wk' = [wk EXCEPT ![w].pc = "send", ![w].err = "ok"]
          /\ hist' = [hist EXCEPT !.okJobs = @ \cup {wk[w].job.ID},
                                   !.wrote = @ \cup {"parse_buy_stop_target"}]
    /\ UNCHANGED <<build, remote, now, email_landing, emails, trade_signals,
                   stage, pc, ret, runs, jobList, sent, jobs, jobsClosed, results,
                   resultsClosed, successCount, errorCount>>

\* Extraction starts with the mailbox landed and enriched and nothing staged; the
\* third message is a candidate without a ticker, a candidate with a buy price of
\* 0, or no candidate
ExtractionMailboxes ==
    {mb \in Mailboxes :
        /\ mb["m2"].InternalDate = DateLater
        /\ mb["m3"].InternalDate = 0
        /\ mb["m3"].Payload[2].Data \in {BodyNoTicker, BodyZeroBuy, BodyNews}}

InitExtraction ==
    /\ build \in {"split", "main"}
    /\ remote \in ExtractionMailboxes
    /\ now = ClockStart
    /\ faults = 0
    /\ email_landing = LandedAll(build, remote, MessageIds)
    /\ emails = EnrichedAll(build, remote, MessageIds, ClockStart)
    /\ parse_buy_stop_target = <<>>
    /\ trade_signals = <<>>
    /\ PoolIdle
    /\ runs = 0

\* Extraction reads the clock only when it starts (getSignalEmails), so time is
\* let pass only between a run and the next
NextExtraction ==
    \/ pc = "done" /\ runs < MaxRuns /\ Tick
    \/ parseSignalsConcurrently
    \/ SendJob
    \/ CloseJobs
    \/ \E w \in Workers : WorkerReceive(w)
    \/ \E w \in Workers : parseSignalWorker(w)
    \/ \E w \in Workers : WorkerSendResult(w)
    \/ CloseResults
    \/ CollectResult
    \/ StageReturn

SpecExtraction == InitExtraction /\ [][NextExtraction]_vars

ExtractionDone == stage = "extract" /\ pc = "done"

\* the staging rows of an e-mail
StagedRowsOf(id) ==
    {i \in DOMAIN parse_buy_stop_target : parse_buy_stop_target[i].email_id = id}

\* C4 as the specification states it: when an Extraction run has finished, every
\* candidate it processed has exactly one staging row.
C4_OneRowPerProcessed ==
    ExtractionDone =>
        \A i \in DOMAIN jobList : Cardinality(StagedRowsOf(jobList[i].ID)) = 1

\* C4 as the code has it: a candidate whose job returned nil has exactly one
\* staging row from then on, in the first run and in every later one, whether or
\* not a valid signal was found; no e-mail ever has more than one staging row; a
\* candidate whose save failed has only the row an earlier run left, if any.
C4_OneRowPerSaved ==
    /\ \A id \in hist.okJobs : Cardinality(StagedRowsOf(id)) = 1
    /\ \A id \in MessageIds : Cardinality(StagedRowsOf(id)) <= 1
    /\ ExtractionDone => successCount = Cardinality(hist.okJobs)

\* a second Extraction run over the same candidates has finished, every job
\* returning nil, with a row for a valid signal and a row for a rejected one
C4_Witness ==
    /\ ExtractionDone
    /\ runs > 1
    /\ errorCount = 0
    /\ Cardinality(hist.okJobs) = Len(jobList)
    /\ \E i, j \in DOMAIN parse_buy_stop_target :
          /\ parse_buy_stop_target[i].ticker # ""
          /\ parse_buy_stop_target[j].ticker = ""
          /\ parse_buy_stop_target[j].buy_price = 0
          /\ parse_buy_stop_target[j].email_id \in hist.okJobs

(***************************************************************************)
(* Extraction of one e-mail whose body is any list of ticker phrases.      *)
(***************************************************************************)
TickerMailboxes ==
    { [id \in MessageIds |->
          CASE id = "m1" -> HtmlMessage("m1", "t1", DateNoon, body)
            [] id = "m2" -> HtmlMessage("m2", "t1", DateLater, BodyACME)
            [] id = "m3" -> HtmlMessage("m3", "t2", DateNextDay, BodyNews)] :
      body \in TickerBodies }

\* the first message is landed and enriched; one Extraction run is left
InitTicker ==
    /\ build \in {"split", "main"}
    /\ remote \in TickerMailboxes
    /\ now = ClockStart
    /\ faults = 0
    /\ email_landing = LandedAll(build, remote, {"m1"})
    /\ emails = EnrichedAll(build, remote, {"m1"}, ClockStart)
    /\ parse_buy_stop_target = <<>>
    /\ trade_signals = <<>>
    /\ PoolIdle
    /\ runs = MaxRuns - 1

NextTicker ==
    \/ parseSignalsConcurrently
    \/ SendJob
    \/ CloseJobs
    \/ \E w \in Workers : WorkerReceive(w)
    \/ \E w \in Workers : parseSignalWorker(w)
    \/ \E w \in Workers : WorkerSendResult(w)
    \/ CloseResults
    \/ CollectResult
    \/ StageReturn

SpecTicker == InitTicker /\ [][NextTicker]_vars

\* the text of the e-mail a staging row belongs to, markup removed
TextOf(row) == StripTags((CHOOSE e \in emails : e.id = row.email_id).html)

\* the acceptable tickers a text holds after the first NASDAQ: and the first NYSE:
ExchangeQualified(text) ==
    {text[i + 1] : i \in {k \in 1..(Len(text) - 1) :
                            /\ text[k] \in {"NASDAQ:", "NYSE:"}
                            /\ \A j \in 1..(k - 1) : text[j] # text[k]
                            /\ AcceptTicker(text[k + 1])}}

\* the acceptable tickers a text holds next to the word buy
NextToBuy(text) ==
    {text[i] : i \in {k \in 1..(Len(text) - 1) :
                        AcceptTicker(text[k]) /\ text[k + 1] \in {"buy", "BUY"}}}
        \cup {text[i + 1] : i \in {k \in 1..(Len(text) - 1) :
                                    text[k] \in {"buy", "BUY"} /\ AcceptTicker(text[k + 1])}}

ExtractedTwice == ExtractionDone /\ runs > 1 /\ faults = 0

\* C13: a second Extraction run over the same emails rows leaves every staging
\* row as the first run wrote it (ticker, prices, signal_date, entry_date and
\* cleaned text), whenever the runs happen.
C13_SameStagingRows == ExtractedTwice => parse_buy_stop_target = hist.stagedAtStart

\* the emails row a staging row belongs to, and its date in milliseconds (the
\* column holds seconds in the split build and milliseconds in main.go)
RecordOf(row) == CHOOSE e \in emails : e.id = row.email_id
RecordMillis(row) ==
    IF build = "main" THEN RecordOf(row).date ELSE RecordOf(row).date * MillisPerSecond

\* C19: for the body 'Widget Inc (NYSE: WDG) Buy at 50 Stop 45 Target 65' every
\* staging row Extraction writes has ticker WDG, buy_price 50, stop_price 45 and
\* target_price 65 (in hundredths), signal_date equal to the record's date in
\* milliseconds and entry_date one day later.
C19_WidgetExample ==
    \A i \in DOMAIN parse_buy_stop_target :
        LET row == parse_buy_stop_target[i]
        IN  RecordOf(row).html = BodyWDG
                => /\ row.ticker = "WDG"
                   /\ row.buy_price = 5000
                   /\ row.stop_price = 4500
                   /\ row.target_price = 6500
                   /\ row.signal_date = RecordMillis(row)
                   /\ row.entry_date = RecordMillis(row) + MillisPerDay

\* C20: every staging row, of a valid and of an empty signal alike, has
\* signal_date equal to the record's date in milliseconds and entry_date equal
\* to signal_date + 86,400,000.
C20_DatesFromRecord ==
    \A i \in DOMAIN parse_buy_stop_target :
        LET row == parse_buy_stop_target[i]
        IN  /\ row.signal_date = RecordMillis(row)
            /\ row.entry_date = row.signal_date + MillisPerDay

\* the words the patterns of both tiers capture in a text, each pattern at its
\* leftmost match
Candidates(text) ==
    (Range(exchangeMatches(text)) \cup Range(proximityMatches(text, LowerText(text))))
        \ {""}

\* C29: a staged ticker is a word of 2 to 5 capital letters captured by one of
\* the patterns and is not an exclusion word; a rejected capture does not end
\* the cascade: the ticker is empty only if every capture of every pattern of
\* both tiers is rejected (every staged body has a buy price).
C29_AcceptedTickerOnly ==
    \A i \in DOMAIN parse_buy_stop_target :
        LET ticker == parse_buy_stop_target[i].ticker
            cands == Candidates(TextOf(parse_buy_stop_target[i]))
        IN  /\ ticker # "" => /\ ticker \in cands
                              /\ ticker \in UpperWords
                              /\ ticker \notin exclusionWords
            /\ ticker = "" => \A c \in cands : c \in exclusionWords

\* a ticker is staged from a text in which an exchange pattern and a proximity
\* pattern each captured an exclusion word
C29_Witness ==
    \E i \in DOMAIN parse_buy_stop_target :
        LET text == TextOf(parse_buy_stop_target[i])
        IN  /\ parse_buy_stop_target[i].ticker \in {"ACME", "XYZ", "WDG"}
            /\ \/ ParenExchangeMatch(text, "NASDAQ:") = "THE"
               \/ TickerThenBuy(text) = "THE"

(***************************************************************************)
(* Extraction of one e-mail whose body is any list of price phrases.       *)
(***************************************************************************)
PriceMailboxes ==
    { [id \in MessageIds |->
          CASE id = "m1" -> HtmlMessage("m1", "t1", DateNoon, body)
            [] id = "m2" -> HtmlMessage("m2", "t1", DateLater, BodyACME)
            [] id = "m3" -> HtmlMessage("m3", "t2", DateNextDay, BodyNews)] :
      body \in PriceBodies }

InitPrice ==
    /\ build \in {"split", "main"}
    /\ remote \in PriceMailboxes
    /\ now = ClockStart
    /\ faults = 0
    /\ email_landing = LandedAll(build, remote, {"m1"})
    /\ emails = EnrichedAll(build, remote, {"m1"}, ClockStart)
    /\ parse_buy_stop_target = <<>>
    /\ trade_signals = <<>>
    /\ PoolIdle
    /\ runs = MaxRuns - 1

SpecPrice == InitPrice /\ [][NextTicker]_vars

\* the price of the first capture, in pattern order, that parses; 0 if there is none
FirstParsed(caps) ==
    LET parsed == SelectSeq(caps, LAMBDA c : c # "" /\ c \notin OutOfRange)
    IN  IF parsed = <<>> THEN 0 ELSE ParseFloat(Head(parsed))

\* C30: for each price type the staged price is the value of the first pattern,
\* in the order of the list, that matches and whose capture parses as a number;
\* a capture that does not parse counts as no match and the next pattern is
\* tried; without a buy price the row is the empty one; and the job of a text
\* with an unparsable capture returns no error.
C30_FirstParsedPrice ==
    /\ \A i \in DOMAIN parse_buy_stop_target :
          LET row == parse_buy_stop_target[i]
              text == LowerText(TextOf(row))
              buy == FirstParsed(<< LazyPriceMatch(text, {"buy"}),
                                    LazyPriceMatch(text, {"entry"}),
                                    StrictPriceMatch(text, "buy") >>)
              stop == FirstParsed(<< LazyPriceMatch(text, {"stop", "stop-loss", "stoploss"}),
                                     LazyPriceMatch(text, {"sl", "s.l."}),
                                     StrictPriceMatch(text, "stop") >>)
              target == FirstParsed(<< LazyPriceMatch(text, {"target", "take-profit", "takeprofit"}),
                                       LazyPriceMatch(text, {"tp", "t.p."}),
                                       StrictPriceMatch(text, "target") >>)
          IN  IF buy = 0
              THEN row.buy_price = 0 /\ row.stop_price = 0 /\ row.target_price = 0
              ELSE row.buy_price = buy /\ row.stop_price = stop /\ row.target_price = target
    /\ errorCount <= faults

\* a row is staged with the price of a later pattern, the capture of the first
\* pattern that matched being out of range
C30_Witness ==
    \E i \in DOMAIN parse_buy_stop_target :
        LET row == parse_buy_stop_target[i]
            text == LowerText(TextOf(row))
        IN  /\ row.email_id \in hist.okJobs
            /\ LazyPriceMatch(text, {"buy"}) \in OutOfRange
            /\ row.buy_price > 0

\* what the extractors of the running build find in a body
FieldsFound(html) ==
    IF build = "main" THEN ExtractedMain[html].fields ELSE ExtractedSplit[html].fields

\* C21: a record that fails validation (no ticker or no buy price) has a staging
\* row once its job has returned, and in every staging row of such a record the
\* ticker and the three prices are absent (the empty string and 0, the values the
\* code stores for an absent field): a stop or target price that was found in the
\* body is not stored.
C21_FailedRowIsEmpty ==
    /\ \A i \in DOMAIN parse_buy_stop_target :
           LET row == parse_buy_stop_target[i]
           IN  ~ValidateSignal(FieldsFound(RecordOf(row).html))
                   => /\ row.ticker = ""
                      /\ row.buy_price = 0
                      /\ row.stop_price = 0
                      /\ row.target_price = 0
    /\ \A id \in hist.okJobs : StagedRowsOf(id) # {}

\* the job of a record without a ticker, in whose body a buy, a stop and a target
\* price were found, has returned and its row is staged
C21_Witness ==
    \E i \in DOMAIN parse_buy_stop_target :
        LET row == parse_buy_stop_target[i]
            found == FieldsFound(RecordOf(row).html)
        IN  /\ row.email_id \in hist.okJobs
            /\ found.Ticker = ""
            /\ found.BuyPrice # 0
            /\ found.StopPrice # 0
            /\ found.TargetPrice # 0
            /\ row.stop_price = 0

(***************************************************************************)
(* Enrichment: enrichEmailsConcurrently and enrichSingleThread (split      *)
(* build); enrichEmailsHandler, enrichThreadsWithEmails and                *)
(* processThreadEmails (main.go).                                          *)
(***************************************************************************)
\* the order in which the remote lists messages, and ORDER BY threadid
MessageOrder == <<"m1", "m2", "m3">>
ThreadOrder == <<"t1", "t2">>

\* the thread's first message only
ThreadHeadOnly(mailbox, threadId) ==
    LET all == SelectSeq(MessageOrder, LAMBDA id : mailbox[id].ThreadId = threadId)
    IN  IF all = <<>> THEN <<>> ELSE <<Head(all)>>

\* thread.Messages of Users.Threads.Get
ThreadMessageList(mailbox, threadId) ==
    SelectSeq(MessageOrder, LAMBDA id : id \in ThreadMessages(mailbox, threadId))

\* the thread keys as the query hands them over: ORDER BY threadid in the split
\* build, ORDER BY created_at (any order among equal stamps) in main.go
ThreadIdLists(bld, tbl) ==
    IF bld = "main"
    THEN Perms(getThreadIDsFromLanding(tbl))
    ELSE {SelectSeq(ThreadOrder, LAMBDA t : t \in getThreadIDsFromLanding(tbl))}

enrichEmailsConcurrently ==
    /\ CanStart
    /\ runs' = runs + 1
    /\ hist' = [NoHist EXCEPT !.emailsAtStart = emails]
    /\ \/ \* the thread-key query fails, or no remote client can be built
          /\ MayFail
          /\ faults' = faults + 1
          /\ ReturnEarly("enrich", "error")
       \/ /\ faults' = faults
          /\ \E list \in ThreadIdLists(build, email_landing) :
                IF Len(list) = 0
                THEN ReturnEarly("enrich", "nil")
                ELSE StartPool("enrich",
                               [i \in DOMAIN list |-> [ThreadID |-> list[i], todo |-> <<>>]])
    /\ UNCHANGED <<build, remote, now, storeVars>>

\* Users.Threads.Get: the worker now holds the thread's message list
enrichGetThread(w) ==
    /\ pc = "running"
    /\ stage = "enrich"
    /\ wk[w].pc = "thread"
    /\ \/ /\ MayFail
          /\ faults' = faults + 1
          /\ wk' = [wk EXCEPT ![w].pc = "send", ![w].err = "err"]
          /\ hist' = hist
       \/ /\ faults' = faults
          /\ LET todo == ThreadMessageList(remote, wk[w].job.ThreadID)
             IN  IF todo = <<>>
                 THEN /\ wk' = [wk EXCEPT ![w].pc = "send", ![w].err = "ok"]
                      /\ hist' = [hist EXCEPT !.okJobs = @ \cup {wk[w].job.ThreadID}]
                 ELSE /\ wk' = [wk EXCEPT ![w].pc = "msg",
                                          ![w].job = [ThreadID |-> wk[w].job.ThreadID,
                                                      todo |-> todo]]
                      /\ hist' = hist
    /\ UNCHANGED <<build, remote, now, storeVars, stage, pc, ret, runs, jobList, sent, jobs,
                   jobsClosed, results, resultsClosed, successCount, errorCount>>

\* one iteration of the loop over thread.Messages.  Split build: fetch the full
\* message and upsert it; a failure of either is logged and the loop goes on.
\* main.go: upsert the message; a failure ends the job with an error.
enrichMessage(w) ==
    /\ pc = "running"
    /\ stage = "enrich"
    /\ wk[w].pc = "msg"
    /\ LET job == wk[w].job
           msg == remote[Head(job.todo)]
           rest == Tail(job.todo)
           goOn == IF rest = <<>>
                   THEN [wk EXCEPT ![w].pc = "send", ![w].err = "ok"]
                   ELSE [wk EXCEPT ![w].job = [ThreadID |-> job.ThreadID, todo |-> rest]]
           done == IF rest = <<>> THEN {job.ThreadID} ELSE {}
       IN  \/ /\ MayFail
              /\ faults' = faults + 1
              /\ emails' = emails
              /\ IF build = "main"
                 THEN /\ wk' = [wk EXCEPT ![w].pc = "send", ![w].err = "err"]
                      /\ hist' = hist
                 ELSE /\ wk' = goOn
                      /\ hist' = [hist EXCEPT !.okJobs = @ \cup done]
           \/ /\ faults' = faults
              /\ emails' = IF build = "main"
                           THEN upsertFullEmailToDBMain(emails, msg)
                           ELSE upsertFullEmailToDB(emails, msg, now)
              /\ wk' = goOn
              /\ hist' = [hist EXCEPT !.okJobs = @ \cup done, !.wrote = @ \cup {"emails"}]
    /\ UNCHANGED <<build, remote, now, email_landing, parse_buy_stop_target, trade_signals,
                   stage, pc, ret, runs, jobList, sent, jobs, jobsClosed, results,
                   resultsClosed, successCount, errorCount>>

\* Enrichment starts with no emails row and with the landing rows of the whole
\* mailbox, of its first message only or of its last message only; the third
\* message has an internal date or has none
EnrichmentMailboxes ==
    {mb \in Mailboxes :
        /\ mb["m2"].InternalDate = DateLater
        /\ mb["m3"].Payload[2].Data = BodyNoStop}

InitEnrichment ==
    /\ build \in {"split", "main"}
    /\ remote \in EnrichmentMailboxes
    /\ now = ClockStart
    /\ faults = 0
    /\ \E ids \in {MessageIds, {"m1"}, {"m3"}} :
          email_landing = LandedAll(build, remote, ids)
    /\ emails = {}
    /\ parse_buy_stop_target = <<>>
    /\ trade_signals = <<>>
    /\ PoolIdle
    /\ runs = 0

NextEnrichment ==
    \/ Tick
    \/ enrichEmailsConcurrently
    \/ SendJob
    \/ CloseJobs
    \/ \E w \in Workers : WorkerReceive(w)
    \/ \E w \in Workers : enrichGetThread(w)
    \/ \E w \in Workers : enrichMessage(w)
    \/ \E w \in Workers : WorkerSendResult(w)
    \/ CloseResults
    \/ CollectResult
    \/ StageReturn

SpecEnrichment == InitEnrichment /\ [][NextEnrichment]_vars

\* Enrichment has run at least twice, no call and no statement ever failing
EnrichedTwice == stage = "enrich" /\ pc = "done" /\ runs > 1 /\ faults = 0

\* C5 as the specification states it: the second run leaves the emails table with
\* the rows the first run left, every field the same, the date included.
C5_SameRows == EnrichedTwice => emails = hist.emailsAtStart

WithoutDate(r) == [r EXCEPT !.date = 0]

\* C5 as the code has it: there is never more than one row per message id, and
\* the second run leaves the same message ids with the same field values, except
\* the date of a message that has no internal date in the split build.
C5_SameRowsButFallbackDate ==
    /\ \A r1, r2 \in emails : r1.id = r2.id => r1 = r2
    /\ EnrichedTwice =>
          /\ {r.id : r \in emails} = {r.id : r \in hist.emailsAtStart}
          /\ \A r \in emails : \E r0 \in hist.emailsAtStart :
                /\ r0.id = r.id
                /\ WithoutDate(r0) = WithoutDate(r)
                /\ (build = "main" \/ remote[r.id].InternalDate # 0) => r0.date = r.date

\* Enrichment has run twice without a failure and a row has changed its date
C5_Witness ==
    /\ EnrichedTwice
    /\ \E r \in emails : \E r0 \in hist.emailsAtStart : r0.id = r.id /\ r0.date # r.date
    /\ \E r \in emails : r \in hist.emailsAtStart

\* C22: when the fetch or the save of one message of a thread fails, the job goes
\* on with the remaining messages of the thread and, at the last message,
\* returns nil; when the fetch of a thread fails, the job returns an error, the
\* pool keeps running and the error is counted.
C22_MessageFailureSkipped ==
    [][\A w \in Workers :
          (stage = "enrich" /\ pc = "running" /\ faults' > faults /\ wk'[w] # wk[w])
              => /\ wk[w].pc = "msg"
                    => /\ wk'[w].err = "ok"
                       /\ IF Len(wk[w].job.todo) > 1
                          THEN /\ wk'[w].pc = "msg"
                               /\ wk'[w].job.todo = Tail(wk[w].job.todo)
                          ELSE wk'[w].pc = "send"
                 /\ wk[w].pc = "thread"
                    => /\ wk'[w].pc = "send"
                       /\ wk'[w].err = "err"
                       /\ pc' = "running"]_vars

\* an Enrichment run has returned nil, no call and no statement having failed
EnrichedClean == stage = "enrich" /\ pc = "done" /\ ret = "nil" /\ faults = 0

\* C23: after an Enrichment run in which nothing failed, the emails table holds
\* exactly one row for every message of every thread whose key is in
\* email_landing, whether or not the message itself was landed.
C23_EveryThreadMessageEnriched ==
    EnrichedClean =>
        \A id \in MessageIds :
            remote[id].ThreadId \in {r.threadid : r \in email_landing}
                => Cardinality({r \in emails : r.id = id}) = 1

\* a clean run over a landing table that holds the key of a two-message thread
\* and not the key of the other thread
C23_Witness ==
    /\ EnrichedClean
    /\ {r.threadid : r \in email_landing} = {"t1"}
    /\ {r.id : r \in emails} = {"m1", "m2"}


(***************************************************************************)
(* Ingestion: downloadAllEmailsConcurrently and downloadSingleEmail (split *)
(* build); fetchEmailsFromSender (main.go).                                *)
(***************************************************************************)
\* the ids Users.Messages.List returns, all pages appended
\* Users.Messages.List with a page token: a page of at most PageSize ids and the
\* token of the next page; the token is the number of ids already listed, 0 for
\* the empty token
ListPage(mailbox, pageToken) ==
    LET all == SelectSeq(MessageOrder, LAMBDA id : id \in DOMAIN mailbox)
        last == IF pageToken + PageSize < Len(all) THEN pageToken + PageSize ELSE Len(all)
    IN  [Messages |-> SubSeq(all, pageToken + 1, last),
         NextPageToken |-> IF last < Len(all) THEN last ELSE 0]

\* the first page only
ListFirstPage(mailbox) == ListPage(mailbox, 0).Messages

\* the listing loop: append the page, stop when no next-page token came back
RECURSIVE ListAll(_, _, _)
ListAll(mailbox, pageToken, messageIDs) ==
    LET response == ListPage(mailbox, pageToken)
        listed == messageIDs \o response.Messages
    IN  IF response.NextPageToken = 0 THEN listed
        ELSE ListAll(mailbox, response.NextPageToken, listed)

ListedMessageIds(mailbox) == ListAll(mailbox, 0, <<>>)

\* an ingestion that, when a page after the first fails, goes on with the
\* identifiers of the pages it has listed
downloadListedSoFar ==
    /\ CanStart
    /\ runs' = runs + 1
    /\ hist' = [NoHist EXCEPT !.landingAtStart = email_landing]
    /\ \/ /\ MayFail
          /\ faults' = faults + 1
          /\ LET messageIDs == ListFirstPage(remote)
             IN  IF ListPage(remote, 0).NextPageToken = 0
                 THEN ReturnEarly("ingest", "error")
                 ELSE StartPool("ingest", [i \in DOMAIN messageIDs |-> [ID |-> messageIDs[i]]])
       \/ /\ faults' = faults
          /\ LET messageIDs == ListedMessageIds(remote)
             IN  IF Len(messageIDs) = 0
                 THEN ReturnEarly("ingest", IF build = "main" THEN "error" ELSE "nil")
                 ELSE StartPool("ingest", [i \in DOMAIN messageIDs |-> [ID |-> messageIDs[i]]])
    /\ UNCHANGED <<build, remote, now, storeVars>>

downloadAllEmailsConcurrently ==
    /\ CanStart
    /\ runs' = runs + 1
    /\ hist' = [NoHist EXCEPT !.landingAtStart = email_landing]
    /\ \/ \* no remote client can be built, or a page of the listing fails
          /\ MayFail
          /\ faults' = faults + 1
          /\ ReturnEarly("ingest", "error")
       \/ /\ faults' = faults
          /\ LET messageIDs == ListedMessageIds(remote)
             IN  IF Len(messageIDs) = 0
                 THEN ReturnEarly("ingest", IF build = "main" THEN "error" ELSE "nil")
                 ELSE StartPool("ingest", [i \in DOMAIN messageIDs |-> [ID |-> messageIDs[i]]])
    /\ UNCHANGED <<build, remote, now, storeVars>>

\* one job of the pool: fetch the message and save it to email_landing
downloadSingleEmail(w) ==
    /\ pc = "running"
    /\ stage = "ingest"
    /\ wk[w].pc = "get"
    /\ LET msg == remote[wk[w].job.ID]
       IN  \/ \* Messages.Get fails, or the landing statement fails
              /\ MayFail
              /\ faults' = faults + 1
              /\ wk' = [wk EXCEPT ![w].pc = "send", ![w].err = "err"]
              /\ UNCHANGED <<email_landing, hist>>
           \/ /\ faults' = faults
              /\ IF build = "main" /\ ~PayloadDecodes(msg)
                 THEN /\ wk' = [wk EXCEPT ![w].pc = "send", ![w].err = "err"]
                      /\ UNCHANGED <<email_landing, hist>>
                 ELSE /\ email_landing' = IF build = "main"
                                          THEN saveEmailToDB(email_landing, msg)
                                          ELSE saveEmailToLanding(email_landing, msg)
                      /\ wk' = [wk EXCEPT ![w].pc = "send", ![w].err = "ok"]
                      /\ hist' = [hist EXCEPT !.okJobs = @ \cup {wk[w].job.ID},
                                               !.wrote = @ \cup {"email_landing"}]
    /\ UNCHANGED <<build, remote, now, emails, parse_buy_stop_target, trade_signals,
                   stage, pc, ret, runs, jobList, sent, jobs, jobsClosed, results,
                   resultsClosed, successCount, errorCount>>

\* Ingestion starts with empty tables
IngestionMailboxes ==
    {mb \in Mailboxes :
        /\ mb["m2"].InternalDate = DateLater
        /\ mb["m3"].InternalDate = DateNextDay
        /\ mb["m3"].Payload[2].Data \in {BodyNoStop, BodyNews}}

InitIngestion ==
    /\ build \in {"split", "main"}
    /\ remote \in IngestionMailboxes \cup {<<>>}
    /\ now = ClockStart
    /\ faults = 0
    /\ email_landing = {}
    /\ emails = {}
    /\ parse_buy_stop_target = <<>>
    /\ trade_signals = <<>>
    /\ PoolIdle
    /\ runs = 0

NextIngestion ==
    \/ downloadAllEmailsConcurrently
    \/ SendJob
    \/ CloseJobs
    \/ \E w \in Workers : WorkerReceive(w)
    \/ \E w \in Workers : downloadSingleEmail(w)
    \/ \E w \in Workers : WorkerSendResult(w)
    \/ CloseResults
    \/ CollectResult
    \/ StageReturn

SpecIngestion == InitIngestion /\ [][NextIngestion]_vars

\* the stage function has returned after running its pool
PoolDone == pc = "done" /\ jobList # <<>>

\* C7: a stage function that got as far as running its pool returns nil, whatever
\* happened to the single items; an error is returned only for a set-up failure.
C7_ErrorOnlyForSetupFailure == PoolDone => ret = "nil"

\* C8: an Ingestion run ends only when every enqueued id has produced a result;
\* a failure makes one error result; every id whose job did not fail is fetched
\* and its thread is in email_landing.
C8_FailureDoesNotStopPool ==
    (stage = "ingest" /\ PoolDone) =>
        /\ successCount + errorCount = Len(jobList)
        /\ successCount = Cardinality(hist.okJobs)
        /\ errorCount <= faults
        /\ jobs = <<>> /\ results = <<>> /\ resultsClosed
        /\ \A id \in hist.okJobs :
              remote[id].ThreadId \in getThreadIDsFromLanding(email_landing)

\* an Ingestion run has finished with one message failed and every other saved
C8_Witness ==
    /\ stage = "ingest"
    /\ PoolDone
    /\ errorCount = 1
    /\ successCount = Len(jobList) - 1
    /\ successCount > 1

\* the ids of the jobs in the job channel and in the workers' hands
JobsInFlight ==
    [i \in DOMAIN jobs |-> jobs[i].ID]
        \o SelectSeq([i \in 1..NumWorkers |->
                         IF wk[i].job = NoJob THEN "" ELSE wk[i].job.ID],
                     LAMBDA id : id # "")

\* C28: the job list of an Ingestion run holds every identifier of every page of
\* the listing exactly once, and is complete before a worker exists; the jobs
\* sent are a prefix of it, no job is in the channel or in a worker's hands
\* twice, and all of them have been sent when the jobs channel is closed.
C28_EveryListedIdOnce ==
    (stage = "ingest" /\ pc = "running") =>
        /\ \A id \in DOMAIN remote :
              Cardinality({i \in DOMAIN jobList : jobList[i].ID = id}) = 1
        /\ \A i \in DOMAIN JobsInFlight :
              /\ \E k \in 1..sent : jobList[k].ID = JobsInFlight[i]
              /\ \A j \in DOMAIN JobsInFlight : JobsInFlight[i] = JobsInFlight[j] => i = j
        /\ jobsClosed => sent = Len(jobList)

\* a worker is fetching the message of the second page
C28_Witness ==
    /\ stage = "ingest"
    /\ pc = "running"
    /\ Len(jobList) > PageSize
    /\ \E w \in Workers :
          wk[w].pc = "get" /\ wk[w].job.ID = jobList[PageSize + 1].ID

\* the keys of the rows a job of the current stage writes: the thread key of its
\* message (Ingestion), the ids of the messages of its thread (Enrichment), its
\* message id (Extraction, Promotion)
JobEntities(job) ==
    CASE stage = "ingest" -> {remote[job.ID].ThreadId}
      [] stage = "enrich" -> ThreadMessages(remote, job.ThreadID)
      [] stage = "extract" -> {job.ID}
      [] stage = "promote" -> {job.EmailID}
      [] OTHER -> {}

\* C16: no two jobs of a run write the same entity: the jobs of the job list
\* have pairwise disjoint keys.
C16_JobsOnDistinctEntities ==
    \A i, j \in DOMAIN jobList :
        i # j => JobEntities(jobList[i]) \cap JobEntities(jobList[j]) = {}

\* C17: email_landing never holds two rows of one thread key, and a row, once
\* there, is never changed by a later write of Ingestion, in the same run or in a
\* later one.
C17_LandingRowsNeverChange ==
    [][/\ \A r1, r2 \in email_landing' : r1.threadid = r2.threadid => r1 = r2
       /\ \A r \in email_landing : r \in email_landing']_vars

\* an Ingestion run has finished and no call or statement has failed so far
IngestedClean == stage = "ingest" /\ PoolDone /\ faults = 0

\* C12: a second Ingestion run against the same remote messages leaves
\* email_landing as the first run left it, also when several listed messages
\* belong to the same thread.
C12_SecondRunSameLanding ==
    (IngestedClean /\ runs > 1) => email_landing = hist.landingAtStart


(***************************************************************************)
(* Termination of a stage run.  Every goroutine of a pool that can take a  *)
(* step eventually takes it: the sender, each worker, the goroutine that   *)
(* closes the result channel, and the collecting stage function.  A remote *)
(* call or a store statement returns, with a value or with an error.       *)
(***************************************************************************)
WorkerStep(w) ==
    \/ downloadSingleEmail(w)
    \/ enrichGetThread(w)
    \/ enrichMessage(w)
    \/ parseSignalWorker(w)
    \/ upsertToTradeSignalsCheck(w)
    \/ upsertToTradeSignalsInsert(w)

\* the pipeline has got as far as the given stage, without a failure
TablesAfter(upTo) ==
    /\ email_landing = IF upTo = "none" THEN {} ELSE LandedAll(build, remote, MessageIds)
    /\ emails = IF upTo \in {"none", "landed"} THEN {}
                ELSE EnrichedAll(build, remote, MessageIds, now)
    /\ IF upTo = "staged"
       THEN \E list \in (IF build = "main"
                         THEN getBuySignalEmails(EnrichedAll(build, remote, MessageIds, now))
                         ELSE getSignalEmails(EnrichedAll(build, remote, MessageIds, now), now)) :
                parse_buy_stop_target = ParsedAll(build, <<>>, list, 1)
       ELSE parse_buy_stop_target = <<>>
    /\ trade_signals = <<>>

\* one stage run is left to start, at any point of the pipeline
InitTermination ==
    /\ build \in {"split", "main"}
    /\ remote \in PromotionMailboxes
    /\ remote["m2"].InternalDate = DateNoon
    /\ now = ClockStart
    /\ faults = 0
    /\ \E upTo \in {"none", "landed", "enriched", "staged"} : TablesAfter(upTo)
    /\ PoolIdle
    /\ runs = MaxRuns - 1

\* the goroutines of a pool: the sender, a worker, the collecting stage function
Sender == SendJob \/ CloseJobs

Worker(w) == WorkerReceive(w) \/ WorkerStep(w) \/ WorkerSendResult(w)

Collector == CollectResult \/ StageReturn

\* the stage that comes next in the pipeline is started
NextStage ==
    \/ email_landing = {} /\ downloadAllEmailsConcurrently
    \/ email_landing # {} /\ emails = {} /\ enrichEmailsConcurrently
    \/ emails # {} /\ parse_buy_stop_target = <<>> /\ parseSignalsConcurrently
    \/ parse_buy_stop_target # <<>> /\ processSignalsConcurrently

NextTermination ==
    \/ NextStage
    \/ Sender
    \/ \E w \in Workers : Worker(w)
    \/ CloseResults
    \/ Collector

PoolFairness ==
    /\ WF_vars(Sender)
    /\ \A w \in Workers : WF_vars(Worker(w))
    /\ WF_vars(CloseResults)
    /\ WF_vars(Collector)

SpecTermination == InitTermination /\ [][NextTermination]_vars /\ PoolFairness

\* C9: a stage run that has built its pool ends: every job is sent and taken, the
\* result channel is closed and drained, and the stage function returns.
C9_RunTerminates ==
    (pc = "running") ~>
        (/\ pc = "done"
         /\ sent = Len(jobList)
         /\ jobs = <<>>
         /\ resultsClosed
         /\ results = <<>>
         /\ successCount + errorCount = Len(jobList))

\* a run with more jobs than workers has ended, one of its jobs having failed
C9_Witness ==
    /\ PoolDone
    /\ Len(jobList) > NumWorkers
    /\ errorCount > 0

(***************************************************************************)
(* The date repair of main.go: fixDateHandler and updateEmailDates.        *)
(***************************************************************************)
\* UPDATE emails SET date = ? WHERE id = ?
UpdateEmailDate(tbl, id, date) ==
    {IF r.id = id THEN [r EXCEPT !.date = date] ELSE r : r \in tbl}

\* updateEmailDates builds its pool over every id of emails, in the order the
\* query returns them, also when there is none
updateEmailDates ==
    /\ CanStart
    /\ build = "main"
    /\ runs' = runs + 1
    /\ hist' = [NoHist EXCEPT !.emailsAtStart = emails]
    /\ \/ \* the query for the ids fails
          /\ MayFail
          /\ faults' = faults + 1
          /\ ReturnEarly("fixdate", "error")
       \/ /\ faults' = faults
          /\ \E list \in Perms({r.id : r \in emails}) :
                StartPool("fixdate", [i \in DOMAIN list |-> [ID |-> list[i]]])
    /\ UNCHANGED <<build, remote, now, storeVars>>

\* one job of the pool: fetch the message and set the date of its row to the
\* message's internal date
updateEmailDate(w) ==
    /\ pc = "running"
    /\ stage = "fixdate"
    /\ wk[w].pc = "update"
    /\ \/ \* Messages.Get fails, or the UPDATE fails
          /\ MayFail
          /\ faults' = faults + 1
          /\ wk' = [wk EXCEPT ![w].pc = "send", ![w].err = "err"]
          /\ UNCHANGED <<emails, hist>>
       \/ /\ faults' = faults
          /\ emails' = UpdateEmailDate(emails, wk[w].job.ID, remote[wk[w].job.ID].InternalDate)
          /\ wk' = [wk EXCEPT ![w].pc = "send", ![w].err = "ok"]
          /\ hist' = [hist EXCEPT !.okJobs = @ \cup {wk[w].job.ID},
                                   !.wrote = @ \cup {"emails"}]
    /\ UNCHANGED <<build, remote, now, email_landing, parse_buy_stop_target, trade_signals,
                   stage, pc, ret, runs, jobList, sent, jobs, jobsClosed, results,
                   resultsClosed, successCount, errorCount>>

(***************************************************************************)
(* The pipeline as a whole: from any point a run without failures has      *)
(* brought it to, any operation is run, and then any operation again.      *)
(***************************************************************************)
\* two signals of the same date in one thread and a message that is no candidate
PipelineMailboxes ==
    {mb \in Mailboxes :
        /\ mb["m2"].InternalDate = DateNoon
        /\ mb["m3"].InternalDate = 0
        /\ mb["m3"].Payload[2].Data = BodyNews}

InitPipeline ==
    /\ build \in {"split", "main"}
    /\ remote \in PipelineMailboxes
    /\ now = ClockStart
    /\ faults = 0
    /\ \E upTo \in {"none", "landed", "enriched", "staged"} : TablesAfter(upTo)
    /\ PoolIdle
    /\ runs = 0

\* any of the four stage functions, or the date repair, is called
AnyStage ==
    \/ downloadAllEmailsConcurrently
    \/ enrichEmailsConcurrently
    \/ parseSignalsConcurrently
    \/ processSignalsConcurrently
    \/ updateEmailDates

NextPipeline ==
    \/ AnyStage
    \/ Sender
    \/ \E w \in Workers : Worker(w)
    \/ \E w \in Workers : updateEmailDate(w)
    \/ CloseResults
    \/ Collector

SpecPipeline == InitPipeline /\ [][NextPipeline]_vars

\* the keys of the rows of the four tables
LandingKeys == {r.threadid : r \in email_landing}
EmailKeys == {r.id : r \in emails}
StagingKeys == {parse_buy_stop_target[i].email_id : i \in DOMAIN parse_buy_stop_target}
TradeKeys == {trade_signals[i].email_id : i \in TradeSignalIndexes}

\* how far a message has come: 0 listed, 1 landed, 2 enriched, 3 extraction
\* attempted (and dropped, if it is not promoted), 4 promoted
PipelineState(id) ==
    IF id \in TradeKeys THEN 4
    ELSE IF id \in StagingKeys THEN 3
    ELSE IF id \in EmailKeys THEN 2
    ELSE IF remote[id].ThreadId \in LandingKeys THEN 1
    ELSE 0

\* C14: no step of any stage removes a row of email_landing, emails,
\* parse_buy_stop_target or trade_signals, and no message moves to an earlier
\* state.
C14_NeverRegresses ==
    [][/\ LandingKeys \subseteq LandingKeys'
       /\ EmailKeys \subseteq EmailKeys'
       /\ StagingKeys \subseteq StagingKeys'
       /\ TradeKeys \subseteq TradeKeys'
       /\ \A id \in MessageIds : PipelineState(id)' >= PipelineState(id)]_vars

\* a promoted message has been through a re-run of an earlier stage that wrote
\* its row again
C14_Witness ==
    /\ pc = "done"
    /\ runs > 1
    /\ stage \in {"ingest", "enrich", "extract"}
    /\ successCount > 0
    /\ \E id \in MessageIds : PipelineState(id) = 4

\* the stage that owns a table
Owner(table) ==
    CASE table = "email_landing" -> "ingest"
      [] table = "emails" -> "enrich"
      [] table = "parse_buy_stop_target" -> "extract"
      [] table = "trade_signals" -> "promote"

\* C15: a table is written only by statements of the stage that owns it:
\* email_landing by Ingestion, emails by Enrichment, parse_buy_stop_target by
\* Extraction, trade_signals by Promotion.
C15_OneWriterPerStore == \A table \in hist.wrote : stage = Owner(table)

\* C24: when a stage function cannot get the remote client, or the listing or
\* the query that builds its job list fails, it returns an error at once: no
\* worker is started, no job exists, no table is written by that step, and the
\* run has written no table when it has returned.
C24_SetupFailureAbortsStage ==
    [][(runs' = runs + 1 /\ faults' > faults)
          => /\ pc' = "done"
             /\ ret' = "error"
             /\ jobList' = <<>>
             /\ wk' = IdleWorkers
             /\ storeVars' = storeVars
             /\ hist'.wrote = {}]_vars

\* Enrichment has returned an error without a job, the landing table filled
C24_Witness ==
    /\ stage = "enrich"
    /\ pc = "done"
    /\ ret = "error"
    /\ jobList = <<>>
    /\ faults > 0
    /\ email_landing # {}
    /\ hist.wrote = {}

\* C25: the result channel is closed only when every worker has left its loop,
\* and a stage function that built a pool has returned only when the channel is
\* closed and read to its end: every worker of the run has exited, no job is
\* left in a channel or in a worker's hands, and every job's result is counted.
C25_DrainedBeforeReturn ==
    /\ resultsClosed => \A w \in Workers : wk[w].pc = "done"
    /\ (pc = "done" /\ jobList # <<>>)
          => /\ resultsClosed
             /\ results = <<>>
             /\ jobs = <<>>
             /\ \A w \in Workers : wk[w].pc = "done" /\ wk[w].job = NoJob
             /\ successCount + errorCount = Len(jobList)

\* Extraction has returned after a pool of two jobs or more wrote the staging table
C25_Witness ==
    /\ stage = "extract"
    /\ pc = "done"
    /\ Len(jobList) > 1
    /\ "parse_buy_stop_target" \in hist.wrote
    /\ resultsClosed

(***************************************************************************)
(* The date of a record.  A Date header is the layout it is written in     *)
(* and the instant it names, in seconds.                                   *)
(***************************************************************************)
\* parseDate (main.go): the layouts tried, in order
DateFormats ==
    << "Mon, 2 Jan 2006 15:04:05 -0700", "Mon, 02 Jan 2006 15:04:05 -0700",
       "2 Jan 2006 15:04:05 -0700", "02 Jan 2006 15:04:05 -0700",
       "Mon, 2 Jan 2006 15:04:05 MST", "Mon, 02 Jan 2006 15:04:05 MST",
       "RFC1123Z", "RFC822Z", "RFC3339",
       "Mon, 2 Jan 2006 15:04:05 GMT", "Mon, 02 Jan 2006 15:04:05 GMT",
       "2006-01-02T15:04:05Z", "2006-01-02 15:04:05" >>

\* time.Parse(format, dateStr) for each format in turn; the first success wins
parseDate(dateStr) ==
    LET hits == {i \in DOMAIN DateFormats : DateFormats[i] = dateStr.layout}
    IN  IF hits = {}
        THEN [ok |-> FALSE, unix |-> 0]
        ELSE [ok |-> TRUE, unix |-> dateStr.unix]

\* Date headers: none, one with a trailing comment that no layout accepts, and
\* two well-formed ones naming 09:00 of day 0
DateHeaders ==
    { [layout |-> "none", unix |-> 0],
      [layout |-> "Mon, 2 Jan 2006 15:04:05 -0700 (MST)", unix |-> 32400],
      [layout |-> "RFC1123Z", unix |-> 32400],
      [layout |-> "2006-01-02 15:04:05", unix |-> 32400] }

\* the first message has any Date header and has an internal date or has none
DateMailboxes ==
    { [id \in MessageIds |->
          CASE id = "m1" -> HtmlMessage("m1", "t1", d1, BodyWDG) @@ [DateHeader |-> h]
            [] id = "m2" -> HtmlMessage("m2", "t1", DateLater, BodyACME)
                                @@ [DateHeader |-> [layout |-> "none", unix |-> 0]]
            [] id = "m3" -> HtmlMessage("m3", "t2", DateNextDay, BodyNews)
                                @@ [DateHeader |-> [layout |-> "none", unix |-> 0]]] :
      d1 \in {0, DateNoon}, h \in DateHeaders }

InitDate ==
    /\ build \in {"split", "main"}
    /\ remote \in DateMailboxes
    /\ now = ClockStart
    /\ faults = 0
    /\ email_landing = LandedAll(build, remote, MessageIds)
    /\ emails = {}
    /\ parse_buy_stop_target = <<>>
    /\ trade_signals = <<>>
    /\ PoolIdle
    /\ runs = MaxRuns - 1

SpecDate == InitDate /\ [][NextEnrichment]_vars

\* the date column of an emails row in milliseconds
RowMillis(r) == IF build = "main" THEN r.date ELSE r.date * MillisPerSecond

\* C26: the date of a record is the internal timestamp when the message has one;
\* when it has none, the date is the instant of the Date header if the header
\* parses, and a current time only if the header does not parse (no body of the
\* mailbox holds a date).
C26_DateByPreference ==
    \A r \in emails :
        LET msg == remote[r.id]
            header == parseDate(msg.DateHeader)
        IN  IF msg.InternalDate # 0 THEN RowMillis(r) = msg.InternalDate
            ELSE IF header.ok THEN RowMillis(r) = header.unix * MillisPerSecond
            ELSE RowMillis(r) >= ClockStart * MillisPerSecond

(***************************************************************************)
(* The body of a record.  The first message has a multipart root with any  *)
(* two parts under it, in traversal order.                                 *)
(***************************************************************************)
BodyParts ==
    { Part("multipart/alternative", <<>>, TRUE),
      Part("text/plain", BodyNews, TRUE), Part("text/plain", BodyNoTicker, TRUE),
      Part("text/html", BodyWDG, TRUE), Part("text/html", BodyACME, TRUE) }

BodyMailboxes ==
    { [id \in MessageIds |->
          CASE id = "m1" -> Message("m1", "t1", DateNoon, "alert", <<"alert", "m1">>,
                                    <<Part("multipart/mixed", <<>>, TRUE), p, q>>)
            [] id = "m2" -> HtmlMessage("m2", "t1", DateLater, BodyACME)
            [] id = "m3" -> HtmlMessage("m3", "t2", DateNextDay, BodyNews)] :
      p \in BodyParts, q \in BodyParts }

InitBody ==
    /\ build \in {"split", "main"}
    /\ remote \in BodyMailboxes
    /\ now = ClockStart
    /\ faults = 0
    /\ email_landing = LandedAll(build, remote, MessageIds)
    /\ emails = {}
    /\ parse_buy_stop_target = <<>>
    /\ trade_signals = <<>>
    /\ PoolIdle
    /\ runs = MaxRuns - 1

SpecBody == InitBody /\ [][NextEnrichment]_vars

\* the body an emails row holds: the html column in the split build; in main.go
\* the plain text, which the row prefers, or else the html
ChosenBody(r) ==
    IF build = "main" /\ r.plain_text # <<>> THEN r.plain_text ELSE r.html

\* the data of the first part of a type that has data, in traversal order
FirstPartData(payload, mime) ==
    LET hits == {i \in DOMAIN payload : payload[i].MimeType = mime /\ payload[i].Data # <<>>}
    IN  IF hits = {} THEN <<>> ELSE payload[CHOOSE i \in hits : \A j \in hits : i <= j].Data

\* C27: the body of a record is the data of the first text/plain part of the
\* message in traversal order when the message has a text/plain part with data,
\* and the data of its first text/html part otherwise.
C27_FirstPlainElseFirstHtml ==
    \A r \in emails :
        LET payload == remote[r.id].Payload
        IN  ChosenBody(r) = IF FirstPartData(payload, "text/plain") # <<>>
                            THEN FirstPartData(payload, "text/plain")
                            ELSE FirstPartData(payload, "text/html")


(***************************************************************************)
(* Outcomes that are no errors: a record that fails validation is staged   *)
(* as an empty row and parseSignalFromEmail returns nil; a signal whose    *)
(* signal_date is occupied is skipped and upsertToTradeSignals returns nil.*)
(***************************************************************************)
\* two signals of one date and a candidate without a ticker, taken through the
\* stages one after the other from any point before Extraction
InitOutcomes ==
    /\ build \in {"split", "main"}
    /\ remote \in {mb \in Mailboxes :
                      /\ mb["m2"].InternalDate = DateNoon
                      /\ mb["m3"].InternalDate = 0
                      /\ mb["m3"].Payload[2].Data = BodyNoTicker}
    /\ now = ClockStart
    /\ faults = 0
    /\ \E upTo \in {"none", "landed", "enriched"} : TablesAfter(upTo)
    /\ PoolIdle
    /\ runs = 0

SpecOutcomes == InitOutcomes /\ [][NextTermination]_vars

\* C31: a parse step without a failing statement, a validation miss included,
\* and a date check that finds the signal_date occupied each leave the worker
\* with a success result and the error count unchanged; the skip writes no row;
\* the success result is sent as such and collected as a success
C31_MissAndSkipAreSuccesses ==
    [][/\ \A w \in Workers :
            /\ (stage = "extract" /\ wk[w].pc = "parse" /\ wk'[w] # wk[w]
                    /\ faults' = faults)
                  => /\ wk'[w].pc = "send"
                     /\ wk'[w].err = "ok"
                     /\ errorCount' = errorCount
            /\ (stage = "promote" /\ wk[w].pc = "check" /\ wk'[w] # wk[w]
                    /\ faults' = faults
                    /\ SignalDateExists(trade_signals, wk[w].job.SignalDate))
                  => /\ wk'[w].pc = "send"
                     /\ wk'[w].err = "ok"
                     /\ trade_signals' = trade_signals
                     /\ errorCount' = errorCount
            /\ (wk[w].pc = "send" /\ wk[w].err = "ok" /\ wk'[w] # wk[w])
                  => results' = Append(results, "ok")
       /\ (results # <<>> /\ Head(results) = "ok" /\ results' = Tail(results))
             => /\ errorCount' = errorCount
                /\ successCount' = successCount + 1]_vars

\* an extraction that staged the empty row of a record without a ticker and
\* then a promotion that skipped one of two signals of the same date: both runs
\* ended without a failure and the promotion counted two successes
C31_Witness ==
    /\ stage = "promote"
    /\ pc = "done"
    /\ faults = 0
    /\ hist.tsAtStart = <<>>
    /\ Len(jobList) = 2
    /\ jobList[1].SignalDate = jobList[2].SignalDate
    /\ successCount = 2
    /\ errorCount = 0
    /\ Len(trade_signals) = 1
    /\ \E i \in DOMAIN parse_buy_stop_target :
          /\ parse_buy_stop_target[i].ticker = ""
          /\ parse_buy_stop_target[i].buy_price = 0
          /\ FieldsFound(RecordOf(parse_buy_stop_target[i]).html).Ticker = ""


(***************************************************************************)
(* Extraction of a body longer than HtmlLimit.                             *)
(***************************************************************************)
InitLong ==
    /\ build \in {"split", "main"}
    /\ remote \in { [id \in MessageIds |->
                       CASE id = "m1" -> HtmlMessage("m1", "t1", DateNoon, body)
                         [] id = "m2" -> HtmlMessage("m2", "t1", DateLater, BodyACME)
                         [] id = "m3" -> HtmlMessage("m3", "t2", DateNextDay, BodyNews)] :
                    body \in LongBodies }
    /\ now = ClockStart
    /\ faults = 0
    /\ email_landing = LandedAll(build, remote, {"m1"})
    /\ emails = EnrichedAll(build, remote, {"m1"}, ClockStart)
    /\ parse_buy_stop_target = <<>>
    /\ trade_signals = <<>>
    /\ PoolIdle
    /\ runs = MaxRuns - 1

SpecLong == InitLong /\ [][NextTicker]_vars

\* what Extraction stores for a record: ticker, prices and the cleaned text
ExtractionResult(row) ==
    [ticker |-> row.ticker, buy_price |-> row.buy_price, stop_price |-> row.stop_price,
     target_price |-> row.target_price,
     text |-> IF build = "main" THEN row.parsed_text ELSE row.raw_html]

\* the row Extraction stages for a record
StagedFor(email) ==
    IF build = "main" THEN parseAndSaveSignal(<<>>, email)[1]
    ELSE parseSignalFromEmail(<<>>, email)[1]

\* C32: the row staged for a record has the ticker, the prices and the cleaned
\* text that Extraction gives to every record of the same id and date whose html
\* agrees with it on the first HtmlLimit positions
C32_PrefixDecides ==
    stage = "extract" =>
        \A i \in DOMAIN parse_buy_stop_target : \A e \in Range(jobList) :
            (e.ID = parse_buy_stop_target[i].email_id /\ e.ID \in hist.okJobs)
               => \A b \in Bodies :
                     Truncate(b) = Truncate(e.HTML)
                        => ExtractionResult(StagedFor([e EXCEPT !.HTML = b]))
                              = ExtractionResult(parse_buy_stop_target[i])


(***************************************************************************)
(* The counts of a stage and the order of the results.                     *)
(***************************************************************************)
\* the outcomes of kind k that the workers have produced so far in the run: those
\* counted, those in the results channel and those a worker is about to send
Outcomes(k) ==
    (IF k = "ok" THEN successCount ELSE errorCount)
      + Cardinality({i \in DOMAIN results : results[i] = k})
      + Cardinality({w \in Workers : wk[w].pc = "send" /\ wk[w].err = k})

\* the workers that produce the outcome of their job in this step
Finishing(w) == wk[w].pc \notin {"send", "recv", "idle", "done"} /\ wk'[w].pc = "send"

\* C33: within a run, sending and collecting results in any order leaves the
\* number of successes and of failures produced unchanged, a worker's outcome adds
\* one to its kind, and at the end of the run the two counts are these numbers
C33_CountsIndependentOfOrder ==
    /\ []((pc = "done" /\ jobList # <<>>)
             => /\ successCount = Outcomes("ok")
                /\ errorCount = Outcomes("err")
                /\ results = <<>>)
    /\ [][(pc = "running" /\ pc' = "running")
             => \A k \in {"ok", "err"} :
                   Outcomes(k)' = Outcomes(k)
                      + Cardinality({w \in Workers : Finishing(w) /\ wk'[w].err = k})]_vars

\* a run of several jobs ended with one failure among the successes
C33_Witness ==
    /\ pc = "done"
    /\ Len(jobList) > 1
    /\ errorCount = 1
    /\ successCount = Len(jobList) - 1
    /\ faults = 1


(***************************************************************************)
(* One result per job.                                                     *)
(***************************************************************************)
\* the jobs in the jobs channel and in the hands of the workers
JobsHeld ==
    jobs \o SelectSeq([i \in 1..NumWorkers |-> wk[i].job], LAMBDA j : j # NoJob)

\* a job as it was put on the list: the worker of a thread keeps the messages
\* it still has to store with its job
AsListed(job) == IF stage = "enrich" THEN [job EXCEPT !.todo = <<>>] ELSE job

\* C34: in a run of any stage the jobs in the channel and in the workers' hands
\* are distinct jobs of the job list; every job sent is in the channel, in one
\* worker's hands, or has given one result, waiting or counted; and at the end of
\* the run every job has been sent and the two counts add up to the number of jobs
C34_OneResultPerJob ==
    (pc \in {"running", "done"} /\ jobList # <<>>) =>
        /\ \A i \in DOMAIN JobsHeld :
              /\ \E k \in 1..sent : jobList[k] = AsListed(JobsHeld[i])
              /\ \A j \in DOMAIN JobsHeld :
                    AsListed(JobsHeld[i]) = AsListed(JobsHeld[j]) => i = j
        /\ sent = Len(JobsHeld) + Len(results) + successCount + errorCount
        /\ pc = "done" => /\ sent = Len(jobList)
                          /\ JobsHeld = <<>>
                          /\ results = <<>>
                          /\ successCount + errorCount = Len(jobList)

\* every worker is at work on a job while results of the run are already counted
\* or waiting
C34_Witness ==
    /\ pc = "running"
    /\ \A w \in Workers : wk[w].job # NoJob
    /\ Len(jobList) > NumWorkers
    /\ Len(results) + successCount + errorCount > 0


(***************************************************************************)
(* Promotion of more signals of one date than there are workers.           *)
(***************************************************************************)
\* three clean signals of the same date; one stage run from any point
InitSameDate ==
    /\ build \in {"split", "main"}
    /\ remote = [id \in MessageIds |->
                    CASE id = "m1" -> HtmlMessage("m1", "t1", DateNoon, BodyWDG)
                      [] id = "m2" -> HtmlMessage("m2", "t1", DateNoon, BodyACME)
                      [] id = "m3" -> HtmlMessage("m3", "t2", DateNoon, BodyACME)]
    /\ now = ClockStart
    /\ faults = 0
    /\ \E upTo \in {"none", "landed", "enriched", "staged"} : TablesAfter(upTo)
    /\ PoolIdle
    /\ runs = MaxRuns - 1

SpecSameDate == InitSameDate /\ [][NextTermination]_vars

\* the rows of a signal_date that the run has put into trade_signals
InsertedWith(signalDate) ==
    {i \in DOMAIN trade_signals :
        /\ trade_signals[i].signal_date = signalDate
        /\ trade_signals[i] \notin Range(hist.tsAtStart)}

\* C35: during a Promotion run the rows the run has inserted with one
\* signal_date are at most as many as there are workers
C35_AtMostOnePerWorker ==
    stage = "promote" =>
        \A a \in Range(jobList) : Cardinality(InsertedWith(a.SignalDate)) <= NumWorkers

\* a run of more jobs of one date than workers has ended with one row of that
\* date per worker
C35_Witness ==
    /\ stage = "promote"
    /\ pc = "done"
    /\ Len(jobList) > NumWorkers
    /\ \A i \in DOMAIN jobList : jobList[i].SignalDate = jobList[1].SignalDate
    /\ Cardinality(InsertedWith(jobList[1].SignalDate)) = NumWorkers
    /\ successCount = Len(jobList)


(***************************************************************************)
(* A failing page of the listing.                                          *)
(***************************************************************************)
\* C36: an Ingestion run in which a request of the listing fails, whichever
\* page it asked for, returns an error at once: no job list, no worker, and
\* email_landing as it was; and an Ingestion that has returned an error without a
\* job list has left email_landing as it was when the run began
C36_ListingFailureStoresNothing ==
    /\ []((stage = "ingest" /\ pc = "done" /\ ret = "error" /\ jobList = <<>>)
             => /\ email_landing = hist.landingAtStart
                /\ wk = IdleWorkers
                /\ hist.wrote = {})
    /\ [][(runs' = runs + 1 /\ stage' = "ingest" /\ faults' > faults)
             => /\ pc' = "done"
                /\ ret' = "error"
                /\ jobList' = <<>>
                /\ wk' = IdleWorkers
                /\ email_landing' = email_landing]_vars

\* a second Ingestion of a mailbox of more than one page has returned an error
\* from its listing, the landing table filled by the first
C36_Witness ==
    /\ stage = "ingest"
    /\ pc = "done"
    /\ ret = "error"
    /\ jobList = <<>>
    /\ faults > 0
    /\ ListPage(remote, 0).NextPageToken # 0
    /\ email_landing # {}
    /\ email_landing = hist.landingAtStart


(***************************************************************************)
(* The insert-only upsertToTradeSignals of database.go and UNIQUE email_id.*)
(***************************************************************************)
\* C37: in the split build no two trade_signals rows have the same email_id; an
\* insert for an email_id that has a row fails without a failing statement
\* being needed, gives the error result of its job and leaves trade_signals as
\* it is, the run goes on, and at its end every job is counted
C37_UniqueEmailIdRefuses ==
    /\ [](build = "split" =>
             /\ \A i, j \in TradeSignalIndexes :
                   trade_signals[i].email_id = trade_signals[j].email_id => i = j
             /\ PromotionDone => successCount + errorCount = Len(jobList))
    /\ [][build = "split" =>
             \A w \in Workers :
                (/\ stage = "promote"
                 /\ wk[w].pc = "insert"
                 /\ wk'[w] # wk[w]
                 /\ \E i \in TradeSignalIndexes :
                       trade_signals[i].email_id = wk[w].job.EmailID)
                    => /\ wk'[w].pc = "send"
                       /\ wk'[w].err = "err"
                       /\ trade_signals' = trade_signals
                       /\ pc' = "running"
                       /\ \A v \in Workers \ {w} : wk'[v] = wk[v]]_vars

\* a run without a failing statement has counted one error for a message that
\* had a row of another date, and a success for another job; the row is as it was
C37_Witness ==
    /\ build = "split"
    /\ PromotionDone
    /\ faults = 0
    /\ errorCount = 1
    /\ successCount > 0
    /\ \E a \in Range(jobList) : \E i \in DOMAIN hist.tsAtStart :
          /\ hist.tsAtStart[i].email_id = a.EmailID
          /\ hist.tsAtStart[i].signal_date # a.SignalDate
          /\ ~SignalDateExists(hist.tsAtStart, a.SignalDate)
          /\ trade_signals[i] = hist.tsAtStart[i]


(***************************************************************************)
(* The number a price pattern captures and the keyword it belongs to.      *)
(***************************************************************************)
\* the price is a number of the text behind one of the keywords, with none of
\* the other keywords between the two
PriceBetween(text, keys, others, price) ==
    \E k, n \in DOMAIN text :
        /\ text[k] \in keys
        /\ k < n
        /\ text[n] \in NumberTokens \ OutOfRange
        /\ ParseFloat(text[n]) = price
        /\ \A j \in (k + 1)..(n - 1) : text[j] \notin others

\* C38: a staged buy price is a number that follows a buy or entry keyword with
\* no stop or target keyword between them, and a staged stop price is a number
\* that follows a stop keyword with no target keyword between them
C38_PriceOfItsOwnPhrase ==
    \A i \in DOMAIN parse_buy_stop_target :
        LET row == parse_buy_stop_target[i]
            text == LowerText(TextOf(row))
            stopKeys == {"stop", "stop-loss", "stoploss", "sl", "s.l."}
            targetKeys == {"target", "take-profit", "takeprofit", "tp", "t.p."}
        IN  /\ row.buy_price > 0
                => PriceBetween(text, {"buy", "entry"}, stopKeys \cup targetKeys,
                                row.buy_price)
            /\ row.stop_price > 0
                => PriceBetween(text, stopKeys, targetKeys, row.stop_price)


(***************************************************************************)
(* A stage without jobs.                                                   *)
(***************************************************************************)
\* C39: a run of Ingestion, Enrichment, Extraction or Promotion that finds its
\* job list empty, no statement having failed, returns nil at once, without a
\* worker and without a write to any table
C39_EmptyListIsSuccess ==
    [][(/\ runs' = runs + 1
        /\ stage' \in {"ingest", "enrich", "extract", "promote"}
        /\ faults' = faults
        /\ jobList' = <<>>)
          => /\ pc' = "done"
             /\ ret' = "nil"
             /\ wk' = IdleWorkers
             /\ storeVars' = storeVars
             /\ hist'.wrote = {}]_vars
=============================================================================
